---- MODULE Spec2Model ----
(***************************************************************************)
(* CCTV-Log: registry proximity search with cache fallback (registry.js),  *)
(* SAR letter generator (sar.js), incident log (log.js) and the wizard     *)
(* controller (app.js, second listing, lines 541-1351).                    *)
(*                                                                         *)
(* The specifications of the module:                                       *)
(*   RegistrySpec  registry.nearby and registry.saveLocal called directly  *)
(*   SearchSpec    the wizard's registry search and contribution           *)
(*                 (searchRegistry, selectCamera, btn-contribute)          *)
(*   LetterSpec    generateLetter applied to bounded inputs                *)
(*   LogSpec       the wizard and the incident log, with every IndexedDB   *)
(*                 transaction of the log a separate step                  *)
(*   StoreSpec     the incidentLog object called directly                  *)
(*   KeySpec       operatorKey as a function of its camera                 *)
(*   ContactSpec   recordSARSent called directly                           *)
(*   WarnSpec      the wizard on a contact log with earlier requests       *)
(*   DateSpec      the incident date and time fields in three timezones    *)
(*   FlowSpec      captureGPS and searchRegistry with promises pending     *)
(*   ClickSpec     one photograph, btn-mark-sent clicked repeatedly        *)
(*   PrivacySpec   two wizards on two stored profiles, same events         *)
(* Each specification moves its own variables and leaves the others at     *)
(* their initial value.                                                    *)
(***************************************************************************)
EXTENDS Integers, Sequences, FiniteSets, TLC

VARIABLES
    \* ---- registry.js / localStorage / clock -------------------------------
    db,              \* rows of the remote cameras table (PostGIS side)
    cache,           \* localStorage['cctv_registry_v3']: Null or [data, time]
    localCameras,    \* localStorage['cctv_local_cameras']: sequence of cameras
    now,             \* Date.now(), in milliseconds
    call,            \* the last completed registry.nearby call, as its caller saw it
    \* ---- app.js wizard state and the DOM it writes ---------------------------
    state,           \* const state = { location, selectedCamera, ... }
    registryResults, \* what searchRegistry left in #registry-results
    contributeStatus,\* what btn-contribute left in #contribute-status
    \* ---- sar.js --------------------------------------------------------------
    letterIn,        \* argument object handed to generateLetter
    letterOut,       \* what the call produced: a letter record or a thrown error
    \* ---- log.js / contacts.js / the wizard's DOM ------------------------------
    store,           \* IndexedDB object store 'incidents': a set of entries, keyed by id
    txQueue,         \* IndexedDB transactions created and not yet finished, oldest first
    nextId,          \* the next id crypto.randomUUID() returns
    dom,             \* form fields and button states the wizard handlers read and write
    contacts,        \* localStorage['sar_contact_log']: one record per operator key
    sendLog,         \* the recordSARSent calls made so far: [key, at], oldest first
    \* ---- contacts.js: operatorKey as a function ---------------------------------
    keyIn,           \* the camera object handed to operatorKey
    keyOut,          \* the key it returned
    \* ---- log.js called directly ---------------------------------------------------
    answer,          \* what the last getAll() or counts() call resolved to
    live,            \* ids add() has returned and remove() has not since deleted
    \* ---- app.js: promises pending in captureGPS and searchRegistry -----------------
    inFlight,        \* requests of getPosition, reverseGeocode and nearby not yet settled
    \* ---- storage.js, fetch() and the device ----------------------------------------
    profile,         \* localStorage['sar_profile']
    requests,        \* the fetch() calls issued so far, oldest first
    twin,            \* a second wizard, given the same events on another profile
    tz               \* minutes the device's local time is ahead of UTC

regVars    == <<db, cache, localCameras, now, call,
                state, registryResults, contributeStatus>>
letterVars == <<letterIn, letterOut>>
logVars    == <<store, txQueue, nextId, dom, contacts, sendLog>>
keyVars    == <<keyIn, keyOut>>
apiVars    == <<answer, live>>
sessionVars == <<inFlight, profile, requests, twin, tz>>
vars       == <<regVars, letterVars, logVars, keyVars, apiVars, sessionVars>>

Null == [null |-> TRUE]

Abs(n) == IF n < 0 THEN -n ELSE n

RECURSIVE SeqFilter(_, _)
\* Array.prototype.filter with the predicate given as the set of kept elements
SeqFilter(s, keep) ==
    IF s = <<>> THEN <<>>
    ELSE IF Head(s) \in keep THEN <<Head(s)>> \o SeqFilter(Tail(s), keep)
         ELSE SeqFilter(Tail(s), keep)

SeqRange(s) == {s[i] : i \in 1..Len(s)}

(***************************************************************************)
(* Bounds of the model                                                     *)
(***************************************************************************)
MaxCams  == 2     \* registry camera ids 1..MaxCams
MaxLat   == 2     \* latitudes 0..MaxLat, in steps of StepM metres of arc
MaxLocal == 1     \* entries kept in cctv_local_cameras
MaxTicks == 2     \* clock advances, TickMs each

(***************************************************************************)
(* Coordinates.  Every point lies on one meridian (lng = 0), where the     *)
(* haversine formula of registry._dist reduces to R * |dLat| (radians): a  *)
(* latitude is counted in steps of StepM metres of arc.                    *)
(***************************************************************************)
DefaultRadiusM == 300
StepM  == DefaultRadiusM
Lats   == 0..MaxLat
Radii  == {DefaultRadiusM, 2 * DefaultRadiusM}
CACHE_TTL == 12 * 60 * 60 * 1000
TickMs == CACHE_TTL

Undefined == 0 - 1   \* a property the object does not have (lat, lng, distance, operator_id)

\* registry._dist: great-circle distance in metres (dLng = 0 on the meridian)
_dist(lat1, lng1, lat2, lng2) == StepM * Abs(lat2 - lat1)

(***************************************************************************)
(* The remote side: table cameras and the RPC cameras_within.              *)
(***************************************************************************)
CamIds == 1..MaxCams

OperatorNames == <<"Tesco Stores Ltd", "Acme Parking", "Borough Council", "Shop 4">>
OperatorName(id) == OperatorNames[((id - 1) % Len(OperatorNames)) + 1]

\* one row of table cameras joined with its operator
Row(id, lat) ==
    [id |-> id, lat |-> lat, lng |-> 0, operator_id |-> id,
     operator_name |-> OperatorName(id)]

\* camera i stands two steps north of camera i - 1, wrapping at MaxLat
CamLat(id) == (2 * (id - 1)) % (MaxLat + 1)

\* the contents of the cameras table: any of the cameras may be registered
Registries == SUBSET {Row(i, CamLat(i)) : i \in CamIds}

RECURSIVE RowsByDistance(_, _, _)
\* the rows of a set, nearest first, equal distances by ascending id
RowsByDistance(rows, lat, lng) ==
    IF rows = {} THEN <<>>
    ELSE LET first == CHOOSE r \in rows : \A q \in rows :
                         \/ _dist(lat, lng, r.lat, r.lng) < _dist(lat, lng, q.lat, q.lng)
                         \/ /\ _dist(lat, lng, r.lat, r.lng) = _dist(lat, lng, q.lat, q.lng)
                            /\ r.id <= q.id
         IN  <<first>> \o RowsByDistance(rows \ {first}, lat, lng)

\* RPC cameras_within(user_lat, user_lng, radius_m): the geo-filter runs
\* server-side and answers bounded, pre-sorted rows carrying distance_m
cameras_within(table, user_lat, user_lng, radius_m) ==
    LET inside == {r \in table : _dist(user_lat, user_lng, r.lat, r.lng) <= radius_m}
        sorted == RowsByDistance(inside, user_lat, user_lng)
    IN  [i \in 1..Len(sorted) |->
            [id |-> sorted[i].id, lat |-> sorted[i].lat, lng |-> sorted[i].lng,
             distance_m |-> _dist(user_lat, user_lng, sorted[i].lat, sorted[i].lng),
             operator_id |-> sorted[i].operator_id,
             operator_name |-> sorted[i].operator_name]]

\* what fetch() can answer: rows, a non-success status, or a rejected promise
FetchKinds == {"ok", "http_error", "network_error"}

(***************************************************************************)
(* registry.js                                                             *)
(***************************************************************************)
\* registry._fetchFromSupabase, given the response of fetch()
_fetchFromSupabase(resp) ==
    IF resp.kind # "ok" THEN [threw |-> TRUE, value |-> <<>>]
    ELSE [threw |-> FALSE,
          value |-> [i \in 1..Len(resp.rows) |->
              [id          |-> [kind |-> "registry", n |-> resp.rows[i].id],
               lat         |-> resp.rows[i].lat,
               lng         |-> resp.rows[i].lng,
               distance    |-> resp.rows[i].distance_m,
               operator_id |-> resp.rows[i].operator_id,
               operator    |-> [name |-> resp.rows[i].operator_name],
               local       |-> FALSE,
               manual      |-> FALSE]]]

\* _loadCache without the time-to-live test
LoadCacheNoTTL(stored, clock) == stored

\* registry._loadCache: Null when absent or older than CACHE_TTL
_loadCache(stored, clock) ==
    IF stored = Null THEN Null
    ELSE IF clock - stored.time > CACHE_TTL THEN Null
    ELSE stored

\* _saveCache, were it to leave the timestamp at the page load
SaveCacheUnstamped(data, clock) == [data |-> data, time |-> 0]

\* registry._saveCache
_saveCache(data, clock) == [data |-> data, time |-> clock]

RECURSIVE InsertByDistance(_, _)
\* one step of a stable ascending sort on distance: c goes after its equals
InsertByDistance(sorted, c) ==
    IF sorted = <<>> THEN <<c>>
    ELSE IF c.distance < Head(sorted).distance THEN <<c>> \o sorted
    ELSE <<Head(sorted)>> \o InsertByDistance(Tail(sorted), c)

RECURSIVE SortByDistance(_)
\* Array.prototype.sort((a, b) => a.distance - b.distance), which is stable
SortByDistance(s) ==
    IF s = <<>> THEN <<>>
    ELSE InsertByDistance(SortByDistance(SubSeq(s, 1, Len(s) - 1)), s[Len(s)])

\* _distFilter without its radius cutoff
DistFilterNoCutoff(cameras, lat, lng, radiusM) ==
    SortByDistance([i \in 1..Len(cameras) |->
        [cameras[i] EXCEPT !.distance = _dist(lat, lng, cameras[i].lat, cameras[i].lng)]])

\* _distFilter with the cutoff written < instead of <=
DistFilterStrict(cameras, lat, lng, radiusM) ==
    LET mapped == [i \in 1..Len(cameras) |->
                     [cameras[i] EXCEPT !.distance = _dist(lat, lng, cameras[i].lat, cameras[i].lng)]]
    IN  SortByDistance(SeqFilter(mapped, {c \in SeqRange(mapped) : c.distance < radiusM}))

\* registry._distFilter
_distFilter(cameras, lat, lng, radiusM) ==
    LET mapped == [i \in 1..Len(cameras) |->
                     [cameras[i] EXCEPT !.distance = _dist(lat, lng, cameras[i].lat, cameras[i].lng)]]
        kept   == SeqFilter(mapped, {c \in SeqRange(mapped) : c.distance <= radiusM})
    IN  SortByDistance(kept)

\* registry._getLocal
_getLocal(stored) == stored

\* nearby whose offline branches forget the user's local cameras
NearbyLocalOnlineOnly(lat, lng, radiusM, resp, storedCache, storedLocal, clock) ==
    LET fetched == _fetchFromSupabase(resp)
        cached  == _loadCache(storedCache, clock)
    IN  IF ~fetched.threw
        THEN [threw |-> FALSE, branch |-> "remote",
              value |-> fetched.value \o _getLocal(storedLocal),
              cache |-> _saveCache(fetched.value, clock)]
        ELSE IF cached # Null
        THEN [threw |-> FALSE, branch |-> "cache",
              value |-> _distFilter(cached.data, lat, lng, radiusM),
              cache |-> storedCache]
        ELSE [threw |-> FALSE, branch |-> "local", value |-> <<>>,
              cache |-> storedCache]

\* registry.nearby, from the response of its fetch: what the caller receives
\* (value, or threw) and the cache the call leaves behind
nearby(lat, lng, radiusM, resp, storedCache, storedLocal, clock) ==
    LET fetched == _fetchFromSupabase(resp)
        cached  == _loadCache(storedCache, clock)
    IN  IF ~fetched.threw
        THEN [threw |-> FALSE, branch |-> "remote",
              value |-> fetched.value \o _getLocal(storedLocal),
              cache |-> _saveCache(fetched.value, clock)]
        ELSE IF cached # Null
        THEN [threw |-> FALSE, branch |-> "cache",
              value |-> _distFilter(cached.data, lat, lng, radiusM) \o _getLocal(storedLocal),
              cache |-> storedCache]
        ELSE [threw |-> FALSE, branch |-> "local",
              value |-> _getLocal(storedLocal),
              cache |-> storedCache]

\* registry.saveLocal: the stored list after the call
saveLocal(camera, storedLocal, clock) ==
    Append(_getLocal(storedLocal),
           [camera EXCEPT !.id = [kind |-> "local", n |-> clock], !.local = TRUE])

(***************************************************************************)
(* app.js: the part of the wizard that talks to the registry               *)
(***************************************************************************)
\* const state = { ... } as init() leaves it (app.js:551)
InitialState ==
    [section |-> "home", step |-> 0, photo |-> Null, location |-> Null,
     selectedCamera |-> Null, currentIncidentId |-> Null]

\* state.location as captureGPS / searchByPostcode set it
Location(lat) == [lat |-> lat, lng |-> 0, display |-> "display"]

\* the camera object btn-use-manual builds (app.js:718-730)
ManualCamera(org, location) ==
    [id          |-> [kind |-> "manual", n |-> 0],
     lat         |-> IF location = Null THEN Undefined ELSE location.lat,
     lng         |-> IF location = Null THEN Undefined ELSE location.lng,
     distance    |-> Undefined,
     operator_id |-> Undefined,
     operator    |-> [name |-> org],
     local       |-> FALSE,
     manual      |-> TRUE]

NoResults == "empty"
NoCall    ==
    [lat |-> Undefined, lng |-> Undefined, radiusM |-> Undefined,
     clock |-> Undefined, nLocal |-> 0, fetchOk |-> FALSE, branch |-> "none",
     threw |-> FALSE, value |-> <<>>]

\* what one registry.nearby call was given and what its caller received;
\* clock and nLocal are Date.now() and the number of stored local cameras at
\* the time of the call, fetchOk whether fetch() answered rows, branch the
\* return statement that answered
CallRecord(lat, lng, radiusM, kind, res) ==
    [lat |-> lat, lng |-> lng, radiusM |-> radiusM,
     clock |-> now, nLocal |-> Len(localCameras), fetchOk |-> (kind = "ok"),
     branch |-> res.branch, threw |-> res.threw, value |-> res.value]

\* the response of fetch() to the cameras_within request
Response(kind, lat, lng, radiusM) ==
    [kind |-> kind,
     rows |-> IF kind = "ok" THEN cameras_within(db, lat, lng, radiusM) ELSE <<>>]

wizardVars == <<state, registryResults, contributeStatus>>

RegistryInit ==
    /\ db \in Registries
    /\ cache = Null
    /\ localCameras = <<>>
    /\ now = 0
    /\ call = NoCall
    /\ state = InitialState
    /\ registryResults = NoResults
    /\ contributeStatus = "hidden"

(***************************************************************************)
(* RegistrySpec: the registry object called directly                       *)
(***************************************************************************)
\* time passes
Tick ==
    /\ now < MaxTicks * TickMs
    /\ now' = now + TickMs
    /\ UNCHANGED <<letterVars, keyVars, apiVars, sessionVars, logVars, db, cache, localCameras, call, wizardVars>>

\* registry.nearby(lat, lng, radiusM), to the resolution of its promise
Nearby ==
    \E lat \in Lats, radiusM \in Radii, kind \in FetchKinds :
        LET res == nearby(lat, 0, radiusM, Response(kind, lat, 0, radiusM),
                          cache, localCameras, now)
        IN  /\ call' = CallRecord(lat, 0, radiusM, kind, res)
            /\ cache' = res.cache
            /\ UNCHANGED <<letterVars, keyVars, apiVars, sessionVars, logVars, db, localCameras, now, wizardVars>>

\* registry.saveLocal(camera) for a manually entered camera at the northern
\* end of the meridian
SaveLocal ==
    \E lat \in {MaxLat} :
        /\ Len(localCameras) < MaxLocal
        /\ localCameras' =
               saveLocal(ManualCamera("Corner Shop", Location(lat)), localCameras, now)
        /\ UNCHANGED <<letterVars, keyVars, apiVars, sessionVars, logVars, db, cache, now, call, wizardVars>>

RegistryNext ==
    \/ Tick
    \/ Nearby
    \/ SaveLocal

LetterIdle == letterIn = Null /\ letterOut = Null

KeyIdle == keyIn = Null /\ keyOut = Null

ApiIdle == answer = Null /\ live = {}

\* storage.getProfile() on an empty localStorage: {}, every field undefined
NoProfile == [name |-> "", address |-> "", email |-> ""]

\* nothing pending, no profile saved, nothing fetched, the device on UTC
SessionIdle ==
    /\ inFlight = <<>>
    /\ profile = NoProfile
    /\ requests = <<>>
    /\ twin = Null
    /\ tz = 0

\* the wizard's form as the page loads and as resetWizard leaves it
InitialDom ==
    [step0Next |-> FALSE, step1Next |-> FALSE, saveToLog |-> FALSE, markSent |-> TRUE,
     incidentDate |-> "", incidentTime |-> "", selfDescription |-> "",
     letterText |-> "", subject |-> "", sarWarning |-> FALSE, sentStatus |-> "hidden",
     mailto |-> Null, gpsStatus |-> "hidden"]

LogIdle ==
    /\ store = {}
    /\ txQueue = <<>>
    /\ nextId = 1
    /\ dom = InitialDom
    /\ contacts = {}
    /\ sendLog = <<>>

\* the page as loaded: empty localStorage, no letter, empty incident log
Loaded == RegistryInit /\ LetterIdle /\ LogIdle /\ KeyIdle /\ ApiIdle /\ SessionIdle

RegistrySpec == Loaded /\ [][RegistryNext]_vars

(***************************************************************************)
(* SearchSpec: the wizard's registry search and contribution (app.js)      *)
(***************************************************************************)
\* captureGPS / searchByPostcode resolve with a position: the user stands at
\* either end of the meridian
SetLocation ==
    \E lat \in {0, MaxLat} :
        /\ state' = [state EXCEPT !.location = Location(lat)]
        /\ UNCHANGED <<letterVars, keyVars, apiVars, sessionVars, logVars, db, cache, localCameras, now, call,
                       registryResults, contributeStatus>>

\* searchRegistry (app.js:741-819), to the end of its last await
SearchRegistry ==
    \E kind \in FetchKinds :
        IF state.location = Null
        THEN /\ registryResults' = "postcode_prompt"
             /\ call' = NoCall
             /\ UNCHANGED <<letterVars, keyVars, apiVars, sessionVars, logVars, db, cache, localCameras, now, state, contributeStatus>>
        ELSE LET lat == state.location.lat
                 lng == state.location.lng
                 res == nearby(lat, lng, DefaultRadiusM,
                               Response(kind, lat, lng, DefaultRadiusM),
                               cache, localCameras, now)
             IN  /\ call' = CallRecord(lat, lng, DefaultRadiusM, kind, res)
                 /\ cache' = res.cache
                 /\ registryResults' =
                        IF res.threw THEN "offline"
                        ELSE IF Len(res.value) = 0 THEN "none_found"
                        ELSE "items"
                 /\ UNCHANGED <<letterVars, keyVars, apiVars, sessionVars, logVars, db, localCameras, now, state, contributeStatus>>

\* click on the i-th .registry-item: selectCamera(c, el)
SelectCamera ==
    \E i \in 1..Len(call.value) :
        /\ registryResults = "items"
        /\ state' = [state EXCEPT !.selectedCamera = call.value[i]]
        /\ UNCHANGED <<letterVars, keyVars, apiVars, sessionVars, logVars, db, cache, localCameras, now, call,
                       registryResults, contributeStatus>>

\* btn-use-manual.onclick with an organisation name typed in
UseManual ==
    /\ state' = [state EXCEPT
                   !.selectedCamera = ManualCamera("Corner Shop", state.location)]
    /\ UNCHANGED <<letterVars, keyVars, apiVars, sessionVars, logVars, db, cache, localCameras, now, call,
                   registryResults, contributeStatus>>

\* btn-contribute.onclick (app.js:891-918), to the end of its try/catch
Contribute ==
    \E kind \in FetchKinds :
        IF state.selectedCamera = Null \/ state.location = Null
        THEN /\ contributeStatus' = "no_data"
             /\ UNCHANGED <<letterVars, keyVars, apiVars, sessionVars, logVars, db, cache, localCameras, now, call, state,
                            registryResults>>
        ELSE /\ state.selectedCamera.manual => Len(localCameras) < MaxLocal
             /\ localCameras' =
                    IF state.selectedCamera.manual
                    THEN saveLocal([state.selectedCamera EXCEPT
                                       !.lat = state.location.lat,
                                       !.lng = state.location.lng],
                                   localCameras, now)
                    ELSE localCameras
             /\ contributeStatus' = IF kind = "ok" THEN "submitted" ELSE "failed"
             /\ UNCHANGED <<letterVars, keyVars, apiVars, sessionVars, logVars, db, cache, now, call, state, registryResults>>

\* btn-new-request.onclick: resetWizard()
ResetWizard ==
    /\ state' = [state EXCEPT !.photo = Null, !.location = Null,
                              !.selectedCamera = Null, !.currentIncidentId = Null,
                              !.step = 0, !.section = "home"]
    /\ registryResults' = NoResults
    /\ contributeStatus' = "hidden"
    /\ call' = NoCall
    /\ UNCHANGED <<letterVars, keyVars, apiVars, sessionVars, logVars, db, cache, localCameras, now>>

SearchNext ==
    \/ SetLocation
    \/ SearchRegistry
    \/ SelectCamera
    \/ UseManual
    \/ Contribute
    \/ ResetWizard

SearchSpec == Loaded /\ [][SearchNext]_vars

(***************************************************************************)
(* sar.js: the letter generator                                            *)
(*                                                                         *)
(* A Date is [time |-> milliseconds since the epoch]; the local timezone   *)
(* is UTC.  An absent string property is "" (undefined and "" are both     *)
(* falsy, and generateLetter reads strings only through || and ?.trim()).  *)
(* An absent object (profile, camera, operator, location, a Date) is Null. *)
(* The letter is the sequence of its ${...} interpolations, each with the  *)
(* template expression that produced it; the fixed text between them is    *)
(* the same in every letter and is left out.                               *)
(***************************************************************************)
Date(ms) == [time |-> ms]

\* the instant h:m:s on day d since the epoch, in milliseconds
Ms(d, h, m, s) == (((d * 24 + h) * 60 + m) * 60 + s) * 1000

Pad2(n) == IF n < 10 THEN "0" \o ToString(n) ELSE ToString(n)

\* fmtTime: toLocaleTimeString('en-GB', { hour: '2-digit', minute: '2-digit' })
fmtTime(d) ==
    Pad2((d.time \div (60 * 60 * 1000)) % 24) \o ":" \o Pad2((d.time \div (60 * 1000)) % 60)

\* fmtDateShort: the local calendar day, written out with its weekday
fmtDateShort(d) == "day " \o ToString(d.time \div (24 * 60 * 60 * 1000))

\* fmtDate: the local calendar day
fmtDate(d) == "date " \o ToString(d.time \div (24 * 60 * 60 * 1000))

\* addMinutes with the factor of a second instead of a minute
AddMinutesAsSeconds(d, m) == Date(d.time + m * 1000)

\* addMinutes
addMinutes(d, m) == Date(d.time + m * 60000)

\* String.prototype.trim on the descriptions of the model
Trim(str) ==
    CASE str = "  " -> ""
      [] str = " red coat, tall " -> "red coat, tall"
      [] OTHER -> str

\* a || b that never takes its right operand
OrLeft(a, b) == a

\* a || b on strings
Or(a, b) == IF a # "" THEN a ELSE b

Slot(expr, text) == [expr |-> expr, text |-> text]

\* generateLetter (sar.js:17-114); clock is what new Date() reads
generateLetter(args, clock) ==
    IF args.profile = Null
    THEN [threw |-> TRUE, text |-> <<>>]     \* profile.name of undefined
    ELSE
    LET today    == fmtDate(Date(clock))
        incident == IF args.incidentTime # Null THEN args.incidentTime
                    ELSE args.photoTime
        has      == incident # Null
        incidentDateStr == IF has THEN fmtDateShort(incident) ELSE "[DATE]"
        incidentTimeStr == IF has THEN fmtTime(incident) ELSE "[TIME]"
        fromTime == IF has THEN fmtTime(addMinutes(incident, -30)) ELSE "[FROM]"
        toTime   == IF has THEN fmtTime(addMinutes(incident, 30)) ELSE "[TO]"
        name     == Or(args.profile.name, "[YOUR NAME]")
        email    == Or(args.profile.email, "[YOUR EMAIL]")
        operator == IF args.camera = Null THEN Null ELSE args.camera.operator
        opName   == IF operator = Null THEN "[DATA CONTROLLER NAME]"
                    ELSE Or(operator.name, "[DATA CONTROLLER NAME]")
        opAddr   == IF operator = Null THEN "[DATA CONTROLLER ADDRESS]"
                    ELSE Or(operator.postal_address, "[DATA CONTROLLER ADDRESS]")
        icoLine  == IF operator # Null /\ operator.ico_reg # ""
                    THEN "ICO Registration No: " \o operator.ico_reg
                    ELSE ""
        camDesc  == Or(IF args.camera = Null THEN "" ELSE args.camera.location_desc,
                       Or(IF args.location = Null THEN "" ELSE args.location.display,
                          "[CAMERA LOCATION]"))
        \* the placeholder is cut at its dash: "... here -- height, build, ..."
        desc     == Or(Trim(args.description), "[Please describe yourself here]")
    IN  [threw |-> FALSE,
         text  |-> << Slot("name", name),
                      Slot("email", email),
                      Slot("today", today),
                      Slot("opName", opName),
                      Slot("icoLine", icoLine),
                      Slot("opAddr", opAddr),
                      Slot("incidentTimeStr", incidentTimeStr),
                      Slot("incidentDateStr", incidentDateStr),
                      Slot("camDesc", camDesc),
                      Slot("camDesc", camDesc),
                      Slot("incidentDateStr", incidentDateStr),
                      Slot("fromTime", fromTime),
                      Slot("toTime", toTime),
                      Slot("desc", desc),
                      Slot("name", name) >>]

\* the argument objects of the model
Names        == {"", "Ada Lovelace"}
Addresses    == {"", "1 High Street"}
Emails       == {"", "ada@example.org"}
OpNames      == {"", "Tesco Stores Ltd"}
OpAddresses  == {"", "Tesco House, Welwyn"}
IcoRegs      == {"", "Z1234567"}
Descriptions == {"", "  ", " red coat, tall "}
LocationDescs == {"", "Car park entrance"}
Displays     == {"", "High Street, Leeds"}
Dates        == {Date(Ms(3, 14, 32, 0)), Date(Ms(3, 0, 10, 17)),
                 Date(Ms(3, 23, 45, 0))}

Profiles  == {Null} \cup [name : Names, address : Addresses, email : Emails]
Operators == {Null} \cup [name : OpNames, postal_address : OpAddresses, ico_reg : IcoRegs]
Cameras   == {Null} \cup [operator : Operators, location_desc : LocationDescs]
Locations == {Null} \cup [display : Displays]

LetterInputs ==
    [profile : Profiles, camera : Cameras, location : Locations,
     photoTime : {Null} \cup Dates, incidentTime : {Null} \cup Dates,
     description : Descriptions]

\* generateLetter({})
EmptyInput ==
    [profile |-> Null, camera |-> Null, location |-> Null, photoTime |-> Null,
     incidentTime |-> Null, description |-> ""]

RegistryIdle ==
    /\ db = {}
    /\ cache = Null
    /\ localCameras = <<>>
    /\ now = 0
    /\ call = NoCall
    /\ state = InitialState
    /\ registryResults = NoResults
    /\ contributeStatus = "hidden"

LetterInit ==
    /\ RegistryIdle
    /\ LogIdle
    /\ KeyIdle
    /\ ApiIdle
    /\ SessionIdle
    /\ letterIn \in LetterInputs
    /\ letterOut = Null

\* one call of generateLetter(letterIn)
GenerateLetter ==
    /\ letterOut = Null
    /\ letterOut' = generateLetter(letterIn, now)
    /\ UNCHANGED <<letterIn, regVars, logVars, keyVars, apiVars, sessionVars>>

LetterNext == GenerateLetter

LetterSpec == LetterInit /\ [][LetterNext]_vars

(***************************************************************************)
(* contacts.js: operator keys and the per-operator contact history         *)
(*                                                                         *)
(* A name and a key are sequences of one-character strings, so that        *)
(* toLowerCase and the two regular-expression replacements of operatorKey  *)
(* work on their characters.  The contact log is a set of records, one per *)
(* key: [key, operatorName, lastSent, count].                              *)
(***************************************************************************)
\* Date.prototype.toISOString, as the instant the string denotes
toISOString(d) == [iso |-> d.time]

MaxNameLen == 3    \* characters in an operator name handed to operatorKey

\* the characters names are made of: letters in both cases, a digit, and
\* three characters outside [a-z0-9], the separator "-" among them
Chars == {"a", "A", "b", "1", " ", "-", "!"}

RECURSIVE SeqsUpTo(_, _)
SeqsUpTo(alphabet, n) ==
    IF n = 0 THEN {<<>>}
    ELSE LET shorter == SeqsUpTo(alphabet, n - 1)
         IN  shorter \cup {Append(w, c) : w \in shorter, c \in alphabet}

\* String.prototype.toLowerCase
toLowerCase(str) ==
    [i \in 1..Len(str) |-> CASE str[i] = "A" -> "a"
                             [] str[i] = "B" -> "b"
                             [] str[i] = "C" -> "c"
                             [] str[i] = "S" -> "s"
                             [] OTHER -> str[i]]

\* the character class [a-z0-9]
IsLowerAlnum(c) == c \in {"a", "b", "c", "e", "h", "n", "o", "p", "r", "s", "1"}

RECURSIVE SkipRun(_)
\* what is left of str after a leading run of characters outside [a-z0-9]
SkipRun(str) ==
    IF str # <<>> /\ ~IsLowerAlnum(Head(str)) THEN SkipRun(Tail(str)) ELSE str

RECURSIVE CollapseRuns(_)
\* .replace(/[^a-z0-9]+/g, '-')
CollapseRuns(str) ==
    IF str = <<>> THEN <<>>
    ELSE IF IsLowerAlnum(Head(str)) THEN <<Head(str)>> \o CollapseRuns(Tail(str))
    ELSE <<"-">> \o CollapseRuns(SkipRun(str))

\* StripEnds, were the leading and trailing hyphen kept
KeepEnds(str) == str

\* .replace(/^-|-$/g, '')
StripEnds(str) ==
    LET a == IF str # <<>> /\ Head(str) = "-" THEN Tail(str) ELSE str
    IN  IF a # <<>> /\ a[Len(a)] = "-" THEN SubSeq(a, 1, Len(a) - 1) ELSE a

Unknown == <<"u", "n", "k", "n", "o", "w", "n">>

\* camera?.operator?.id, "" when there is none
OperatorIdOf(camera) ==
    IF camera # Null /\ "operator" \in DOMAIN camera /\ camera.operator # Null
       /\ "id" \in DOMAIN camera.operator
    THEN camera.operator.id ELSE <<>>

\* camera?.operator?.name, "" when there is none
OperatorDotName(camera) ==
    IF camera # Null /\ "operator" \in DOMAIN camera /\ camera.operator # Null
       /\ "name" \in DOMAIN camera.operator
    THEN camera.operator.name ELSE <<>>

\* camera?.operator?.name || camera?.operatorName || ''
OperatorNameOf(camera) ==
    IF OperatorDotName(camera) # <<>> THEN OperatorDotName(camera)
    ELSE IF camera # Null /\ "operatorName" \in DOMAIN camera THEN camera.operatorName
    ELSE <<>>

\* operatorKey (contacts.js:30-34)
operatorKey(camera) ==
    IF OperatorIdOf(camera) # <<>> THEN OperatorIdOf(camera)
    ELSE LET slug == StripEnds(CollapseRuns(toLowerCase(OperatorNameOf(camera))))
         IN  IF slug # <<>> THEN slug ELSE Unknown

\* log[key], Null for undefined
ContactGet(log, key) ==
    IF \E r \in log : r.key = key THEN CHOOSE r \in log : r.key = key ELSE Null

\* recordSARSent, were every send to start the record afresh
RecordSARSentAfresh(log, key, name, clock) ==
    {r \in log : r.key # key} \cup
    {[key          |-> key,
      operatorName |-> IF name # <<>> THEN name ELSE key,
      lastSent     |-> toISOString(Date(clock)),
      count        |-> 1]}

\* recordSARSent(key, name) (contacts.js:41-50): the contact log it saves
recordSARSent(log, key, name, clock) ==
    LET existing == ContactGet(log, key)
        count    == IF existing = Null THEN 0 ELSE existing.count
    IN  {r \in log : r.key # key} \cup
        {[key          |-> key,
          operatorName |-> IF name # <<>> THEN name ELSE key,
          lastSent     |-> toISOString(Date(clock)),
          count        |-> count + 1]}

\* getRecentSAR(key) (contacts.js:57-71)
getRecentSAR(log, key, clock) ==
    LET entry == ContactGet(log, key)
    IN  IF entry = Null THEN Null
        ELSE [operatorName |-> entry.operatorName,
              lastSent     |-> Date(entry.lastSent.iso),
              daysSince    |-> (clock - entry.lastSent.iso) \div 86400000,
              count        |-> entry.count]

\* checkSARWarning, were the warning to disable "Mark as Sent" as well
CheckSARWarningBlocking(form, cam, log, clock) ==
    IF cam = Null THEN [form EXCEPT !.sarWarning = FALSE]
    ELSE LET recent == getRecentSAR(log, operatorKey(cam), clock)
         IN  [form EXCEPT !.sarWarning = (recent # Null),
                          !.markSent = IF recent # Null THEN FALSE ELSE @]

\* checkSARWarning(cam) (app.js:966-980): the form with #sar-warning shown or
\* hidden; it touches nothing else
checkSARWarning(form, cam, log, clock) ==
    IF cam = Null THEN [form EXCEPT !.sarWarning = FALSE]
    ELSE LET recent == getRecentSAR(log, operatorKey(cam), clock)
         IN  [form EXCEPT !.sarWarning = (recent # Null)]

(***************************************************************************)
(* log.js and the wizard handlers of app.js that use it                    *)
(*                                                                         *)
(* Every incidentLog call runs in IndexedDB transactions of its own.       *)
(* txQueue holds the transactions in the order they were created.  A       *)
(* read-only transaction can finish once no read-write transaction created *)
(* before it is left; a read-write transaction finishes only at the head   *)
(* of the queue.  When a transaction finishes, the async function awaiting *)
(* it resumes in the same task, so the transaction it creates next joins   *)
(* the queue in the same step.                                             *)
(*                                                                         *)
(* An id is [uuid |-> n]; an ISO timestamp is [iso |-> ms]; letterText and *)
(* subjectLine are "" where the code stores null (both are falsy, and the  *)
(* code reads them only through truthiness).  In LogSpec the geolocation   *)
(* request of captureGPS never answers, so state.location stays null;      *)
(* FlowSpec lets it answer.                                                *)
(***************************************************************************)
MaxIncidents == 1    \* ids crypto.randomUUID() hands out
MaxInFlight  == 2    \* transactions in txQueue at once
MaxSars      == 1    \* recordSARSent calls markIncidentSent makes

Uuid(n) == [uuid |-> n]

\* toISOString().slice(0, 10): the UTC calendar day
IsoDay(d) == "D" \o ToString(d.time \div (24 * 60 * 60 * 1000))

\* the wall clock of a device zone minutes ahead of UTC, as the Date whose
\* UTC reading it is: what getFullYear, getMonth, getDate, getHours,
\* getMinutes and toTimeString read from d
Local(d, zone) == Date(d.time + zone * 60000)

\* { ...a, ...b }
Spread(a, b) ==
    [f \in DOMAIN a \cup DOMAIN b |-> IF f \in DOMAIN b THEN b[f] ELSE a[f]]

\* store.get(id): the entry, or Null for undefined
StoreGet(entries, id) ==
    IF \E e \in entries : e.id = id
    THEN CHOOSE e \in entries : e.id = id
    ELSE Null

\* store.put(entry) on keyPath 'id'
StorePut(entries, entry) == {e \in entries : e.id # entry.id} \cup {entry}

\* store.delete(id)
StoreDelete(entries, id) == {e \in entries : e.id # id}

\* the entry incidentLog.add builds before its put (log.js:59-75)
NewEntry(id, clock, incident) ==
    Spread([id |-> id, capturedAt |-> toISOString(Date(clock)), thumbnail |-> Null,
            lat |-> Null, lng |-> Null, locationDisplay |-> "", camera |-> Null,
            incidentDate |-> "", incidentTime |-> "", selfDescription |-> "",
            status |-> "captured", sarSentAt |-> Null, letterText |-> "",
            subjectLine |-> ""],
           incident)

\* state.location?.lat || null and state.location?.lng || null: a number
\* [num |-> n], or Null for no location and for the falsy coordinate 0
StoredCoord(location, f) ==
    IF location = Null THEN Null
    ELSE IF location[f] = 0 THEN Null
    ELSE [num |-> location[f]]

\* state.location?.display || state.location?.road || ''
StoredDisplay(location) == IF location = Null THEN "" ELSE location.display

\* generateThumbnail(state.photo.data), or null without photo data
Thumbnail(photo) ==
    IF photo # Null /\ photo.data # Null THEN [thumb |-> TRUE] ELSE Null

\* state.photo?.time || new Date()
PhotoTimeOr(photo, clock) == IF photo # Null THEN photo.time ELSE Date(clock)

\* a transaction and the async function waiting for it
Tx(mode, op, id, value, caller) ==
    [mode |-> mode, op |-> op, id |-> id, value |-> value, caller |-> caller]

\* updateHomeSummary(): incidentLog.counts() reads the whole store
SummaryTx(caller) == Tx("readonly", "getAll", Null, Null, caller)

\* the updateHomeSummary() of markIncidentSent; id remembers the incident the
\* handler was marking, which the code does not need again
MarkSentSummary(id) == Tx("readonly", "getAll", id, Null, "markSent")

\* SentChanges, were it to stamp the capture time as well
SentChangesRestamping(clock, form) ==
    [status      |-> "sent",
     sarSentAt   |-> toISOString(Date(clock)),
     capturedAt  |-> toISOString(Date(clock)),
     letterText  |-> form.letterText,
     subjectLine |-> form.subject]

\* the changes markIncidentSent hands to incidentLog.update (app.js:1037-1042)
SentChanges(clock, form) ==
    [status      |-> "sent",
     sarSentAt   |-> toISOString(Date(clock)),
     letterText  |-> form.letterText,
     subjectLine |-> form.subject]

\* the organisation typed into #manual-org
ShopName == <<"A", " ", "b">>

Runnable(i) ==
    IF txQueue[i].mode = "readonly"
    THEN \A j \in 1..(i - 1) : txQueue[j].mode = "readonly"
    ELSE i = 1

Without(q, i) == SubSeq(q, 1, i - 1) \o SubSeq(q, i + 1, Len(q))

\* the text buildAndShowLetter puts in #letter-text and #email-subject; the
\* wizard's inputs are fixed here, so every generated letter reads the same
DraftLetter  == "Dear Data Controller, ..."
DraftSubject == "Subject Access Request - CCTV Footage"

\* prefillIncidentDateTime, were it to write both fields whenever one is empty
PrefillBothFields(photo, form, zone) ==
    IF photo = Null THEN form
    ELSE IF form.incidentDate # "" /\ form.incidentTime # "" THEN form
    ELSE [form EXCEPT
            !.incidentDate = IsoDay(Local(photo.time, zone)),
            !.incidentTime = fmtTime(Local(photo.time, zone))]

\* prefillIncidentDateTime (app.js:838-851): the local date and the local
\* time of the photograph go into the fields that are empty
prefillIncidentDateTime(photo, form, zone) ==
    IF photo = Null THEN form
    ELSE IF form.incidentDate # "" /\ form.incidentTime # "" THEN form
    ELSE [form EXCEPT
            !.incidentDate = IF @ = "" THEN IsoDay(Local(photo.time, zone)) ELSE @,
            !.incidentTime = IF @ = "" THEN fmtTime(Local(photo.time, zone)) ELSE @]

\* resetWizard (app.js:1194-1232): what it does to state and to the form
resetWizardState(st) ==
    [st EXCEPT !.photo = Null, !.location = Null, !.selectedCamera = Null,
               !.currentIncidentId = Null, !.step = 0]

resetWizardDom(form) ==
    [form EXCEPT !.step0Next = FALSE, !.step1Next = FALSE, !.saveToLog = FALSE,
                 !.selfDescription = "", !.incidentDate = "", !.incidentTime = "",
                 !.letterText = "", !.sarWarning = FALSE, !.markSent = TRUE,
                 !.sentStatus = "hidden", !.gpsStatus = "hidden"]

logFrame == <<db, cache, localCameras, now, call, contributeStatus, letterIn, letterOut,
              keyIn, keyOut, answer, live, sessionVars>>

LogInit ==
    /\ RegistryIdle
    /\ LetterIdle
    /\ LogIdle
    /\ KeyIdle
    /\ ApiIdle
    /\ SessionIdle

\* btn-capture.onclick
Capture ==
    /\ state.section = "home"
    /\ state' = [state EXCEPT !.section = "request", !.step = 0]
    /\ UNCHANGED <<registryResults, logVars, logFrame>>

\* .nav-btn.onclick: showSection; the log list it renders shows the store
Navigate ==
    \E section \in {"home", "request", "log"} :
        /\ state.section # section
        /\ state' = [state EXCEPT !.section = section]
        /\ UNCHANGED <<registryResults, logVars, logFrame>>

\* btn-take-photo.onclick with a photo taken (app.js:605-626)
TakePhoto ==
    /\ state.section = "request" /\ state.step = 0
    /\ state' = [state EXCEPT !.photo = [data |-> [img |-> TRUE], time |-> Date(now)]]
    /\ dom' = [dom EXCEPT !.step0Next = TRUE]
    /\ UNCHANGED <<registryResults, store, txQueue, nextId, contacts, sendLog, logFrame>>

\* btn-step0-next.onclick (app.js:628-634); searchRegistry finds no location
Step0Next ==
    /\ state.section = "request" /\ state.step = 0
    /\ dom.step0Next
    /\ state.location = Null
    /\ state' = [state EXCEPT !.step = 1]
    /\ registryResults' = "postcode_prompt"
    /\ dom' = [dom EXCEPT !.saveToLog = TRUE]
    /\ UNCHANGED <<store, txQueue, nextId, contacts, sendLog, logFrame>>

\* btn-use-manual.onclick with an organisation typed in: selectCamera(...)
ChooseCamera ==
    /\ state.section = "request" /\ state.step = 1
    /\ state' = [state EXCEPT
                   !.selectedCamera = ManualCamera(ShopName, state.location)]
    /\ dom' = [dom EXCEPT !.step1Next = TRUE, !.saveToLog = TRUE]
    /\ UNCHANGED <<registryResults, store, txQueue, nextId, contacts, sendLog, logFrame>>

\* btn-step1-next.onclick
Step1Next ==
    /\ state.section = "request" /\ state.step = 1
    /\ dom.step1Next
    /\ dom' = prefillIncidentDateTime(state.photo, dom, tz)
    /\ state' = [state EXCEPT !.step = 2]
    /\ UNCHANGED <<registryResults, store, txQueue, nextId, contacts, sendLog, logFrame>>

\* btn-step1-back, btn-step2-back, btn-step3-back
StepBack ==
    /\ state.section = "request" /\ state.step \in 1..3
    /\ state' = [state EXCEPT !.step = @ - 1]
    /\ UNCHANGED <<registryResults, logVars, logFrame>>

\* btn-save-to-log.onclick: saveCaptureToLog up to its await of
\* incidentLog.add (app.js:983-1007, log.js:58-76)
SaveCaptureToLog ==
    /\ state.section = "request" /\ state.step = 1
    /\ dom.saveToLog
    /\ nextId <= MaxIncidents
    /\ Len(txQueue) < MaxInFlight
    /\ LET t == PhotoTimeOr(state.photo, now)
           incident ==
               [capturedAt      |-> toISOString(t),
                thumbnail       |-> Thumbnail(state.photo),
                lat             |-> StoredCoord(state.location, "lat"),
                lng             |-> StoredCoord(state.location, "lng"),
                locationDisplay |-> StoredDisplay(state.location),
                camera          |-> state.selectedCamera,
                incidentDate    |-> IsoDay(t),
                incidentTime    |-> fmtTime(Local(t, tz)),
                selfDescription |-> "",
                status          |-> "captured"]
       IN  txQueue' = Append(txQueue,
                 Tx("readwrite", "add", Uuid(nextId),
                    NewEntry(Uuid(nextId), now, incident), "save"))
    /\ nextId' = nextId + 1
    /\ dom' = [dom EXCEPT !.saveToLog = FALSE]
    /\ UNCHANGED <<state, registryResults, store, contacts, sendLog, logFrame>>

\* btn-step2-next.onclick: buildAndShowLetter(); showStep(3).  The update of
\* the open incident is started and not awaited (app.js:936-939).
Step2Next ==
    /\ state.section = "request" /\ state.step = 2
    /\ state.currentIncidentId # Null => Len(txQueue) < MaxInFlight
    /\ dom' = checkSARWarning(
                  [dom EXCEPT !.letterText = DraftLetter, !.subject = DraftSubject],
                  state.selectedCamera, contacts, now)
    /\ txQueue' =
          IF state.currentIncidentId # Null
          THEN Append(txQueue,
                   Tx("readonly", "get", state.currentIncidentId,
                      [letterText |-> DraftLetter, subjectLine |-> DraftSubject],
                      "letter"))
          ELSE txQueue
    /\ state' = [state EXCEPT !.step = 3]
    /\ UNCHANGED <<registryResults, store, nextId, contacts, sendLog, logFrame>>

\* btn-mark-sent.onclick: markIncidentSent up to its first await
\* (app.js:1023-1066), while fewer than maxIncidents ids were handed out and
\* fewer than maxSars sends recorded
MarkIncidentSentWithin(maxIncidents, maxSars) ==
    /\ state.section = "request" /\ state.step = 3
    /\ dom.markSent
    /\ Len(txQueue) < MaxInFlight
    /\ state.selectedCamera # Null => Len(sendLog) < maxSars
    /\ state.currentIncidentId = Null => nextId <= maxIncidents
    /\ contacts' =
          IF state.selectedCamera # Null
          THEN LET key  == operatorKey(state.selectedCamera)
                   name == IF OperatorDotName(state.selectedCamera) # <<>>
                           THEN OperatorDotName(state.selectedCamera) ELSE key
               IN  recordSARSent(contacts, key, name, now)
          ELSE contacts
    /\ sendLog' =
          IF state.selectedCamera # Null
          THEN Append(sendLog, [key |-> operatorKey(state.selectedCamera), at |-> now])
          ELSE sendLog
    /\ IF state.currentIncidentId # Null
       THEN /\ txQueue' = Append(txQueue,
                   Tx("readonly", "get", state.currentIncidentId,
                      SentChanges(now, dom), "markSent"))
            /\ UNCHANGED nextId
       ELSE /\ txQueue' = Append(txQueue,
                   Tx("readwrite", "add", Uuid(nextId),
                      NewEntry(Uuid(nextId), now,
                          [capturedAt      |-> toISOString(PhotoTimeOr(state.photo, now)),
                           thumbnail       |-> Thumbnail(state.photo),
                           lat             |-> StoredCoord(state.location, "lat"),
                           lng             |-> StoredCoord(state.location, "lng"),
                           locationDisplay |-> StoredDisplay(state.location),
                           camera          |-> state.selectedCamera,
                           incidentDate    |-> dom.incidentDate,
                           incidentTime    |-> dom.incidentTime,
                           selfDescription |-> dom.selfDescription,
                           status          |-> "sent",
                           sarSentAt       |-> toISOString(Date(now)),
                           letterText      |-> dom.letterText,
                           subjectLine     |-> dom.subject]),
                      "markSent"))
            /\ nextId' = nextId + 1
    /\ UNCHANGED <<state, registryResults, store, dom, logFrame>>

MarkIncidentSent == MarkIncidentSentWithin(MaxIncidents, MaxSars)

\* btn-mailto.onclick (app.js:871-877): the mail composer opens on the
\* subject and the letter now in the form; the address is the operator's
\* privacy_email, which no camera of this model has
Mailto ==
    /\ state.section = "request" /\ state.step = 3
    /\ dom' = [dom EXCEPT !.mailto = [subject |-> dom.subject, body |-> dom.letterText]]
    /\ UNCHANGED <<state, registryResults, store, txQueue, nextId, contacts, sendLog,
                   logFrame>>

\* btn-new-request.onclick: resetWizard(); showSection('home')
NewRequest ==
    /\ state.section = "request" /\ state.step = 3
    /\ state' = [resetWizardState(state) EXCEPT !.section = "home"]
    /\ dom' = resetWizardDom(dom)
    /\ registryResults' = NoResults
    /\ UNCHANGED <<store, txQueue, nextId, contacts, sendLog, logFrame>>

\* click on a card's Process / View button: openIncidentForProcessing(id) up
\* to its await of incidentLog.get
OpenIncident ==
    \E e \in store :
        /\ state.section = "log"
        /\ Len(txQueue) < MaxInFlight
        /\ txQueue' = Append(txQueue, Tx("readonly", "get", e.id, Null, "open"))
        /\ UNCHANGED <<state, registryResults, store, nextId, dom, contacts, sendLog, logFrame>>

\* click on a card's Delete button, confirmed: up to the await of
\* incidentLog.remove
DeleteIncident ==
    \E e \in store :
        /\ state.section = "log"
        /\ Len(txQueue) < MaxInFlight
        /\ txQueue' = Append(txQueue, Tx("readwrite", "delete", e.id, Null, "delete"))
        /\ UNCHANGED <<state, registryResults, store, nextId, dom, contacts, sendLog, logFrame>>

\* incidentLog.get resolves inside openIncidentForProcessing, which runs to
\* its end (app.js:1138-1177)
OpenGetDone ==
    \E i \in 1..Len(txQueue) :
        /\ Runnable(i)
        /\ txQueue[i].op = "get" /\ txQueue[i].caller = "open"
        /\ txQueue' = Without(txQueue, i)
        /\ LET inc == StoreGet(store, txQueue[i].id)
           IN  IF inc = Null
               THEN UNCHANGED <<state, dom>>
               ELSE /\ state' = [state EXCEPT
                                   !.currentIncidentId = inc.id,
                                   !.selectedCamera = inc.camera,
                                   !.location =
                                       IF inc.lat # Null /\ inc.lng # Null
                                       THEN [lat |-> inc.lat.num, lng |-> inc.lng.num,
                                             display |-> inc.locationDisplay]
                                       ELSE Null,
                                   !.photo = [data |-> inc.thumbnail,
                                              time |-> Date(inc.capturedAt.iso)],
                                   !.section = "request",
                                   !.step = IF inc.letterText # "" THEN 3 ELSE 2]
                    /\ dom' = [prefillIncidentDateTime(
                                  [data |-> inc.thumbnail,
                                   time |-> Date(inc.capturedAt.iso)],
                                  [dom EXCEPT !.incidentDate = inc.incidentDate,
                                              !.incidentTime = inc.incidentTime,
                                              !.selfDescription = inc.selfDescription],
                                  tz)
                               EXCEPT !.step1Next = TRUE,
                                      !.saveToLog = TRUE,
                                      !.letterText =
                                          IF inc.letterText # "" THEN inc.letterText ELSE @,
                                      !.subject =
                                          IF inc.letterText # "" THEN inc.subjectLine ELSE @,
                                      !.sarWarning =
                                          IF inc.letterText # ""
                                          THEN checkSARWarning(dom, inc.camera, contacts,
                                                               now).sarWarning
                                          ELSE @]
        /\ UNCHANGED <<registryResults, store, nextId, contacts, sendLog, logFrame>>

\* `existing = await this.get(id)` resolves inside incidentLog.update
\* (log.js:82-84): a missing incident throws, which both callers swallow;
\* otherwise the merged entry goes into a new read-write transaction
UpdateGetDone ==
    \E i \in 1..Len(txQueue) :
        /\ Runnable(i)
        /\ txQueue[i].op = "get" /\ txQueue[i].caller \in {"letter", "markSent"}
        /\ LET existing == StoreGet(store, txQueue[i].id)
               rest     == Without(txQueue, i)
           IN  txQueue' =
                  IF existing = Null
                  THEN IF txQueue[i].caller = "markSent"
                       THEN Append(rest, MarkSentSummary(txQueue[i].id))
                       ELSE rest
                  ELSE Append(rest,
                           Tx("readwrite", "put", txQueue[i].id,
                              Spread(existing, txQueue[i].value), txQueue[i].caller))
        /\ UNCHANGED <<state, registryResults, store, nextId, dom, contacts, sendLog, logFrame>>

\* the put of incidentLog.update commits (log.js:84)
UpdatePutDone ==
    /\ Len(txQueue) > 0
    /\ txQueue[1].op = "put"
    /\ store' = StorePut(store, txQueue[1].value)
    /\ txQueue' = IF txQueue[1].caller = "markSent"
                  THEN Append(Tail(txQueue), MarkSentSummary(txQueue[1].id))
                  ELSE Tail(txQueue)
    /\ UNCHANGED <<state, registryResults, nextId, dom, contacts, sendLog, logFrame>>

\* the put of incidentLog.add commits (log.js:76); the caller goes on to
\* updateHomeSummary
AddDone ==
    /\ Len(txQueue) > 0
    /\ txQueue[1].op = "add"
    /\ store' = StorePut(store, txQueue[1].value)
    /\ txQueue' = Append(Tail(txQueue),
                          IF txQueue[1].caller = "markSent"
                          THEN MarkSentSummary(txQueue[1].id)
                          ELSE SummaryTx(txQueue[1].caller))
    /\ UNCHANGED <<state, registryResults, nextId, dom, contacts, sendLog, logFrame>>

\* the delete of incidentLog.remove commits (log.js:100); the handler goes on
\* to updateHomeSummary and initLog
RemoveDone ==
    /\ Len(txQueue) > 0
    /\ txQueue[1].op = "delete"
    /\ store' = StoreDelete(store, txQueue[1].id)
    /\ txQueue' = Append(Tail(txQueue), SummaryTx("delete"))
    /\ UNCHANGED <<state, registryResults, nextId, dom, contacts, sendLog, logFrame>>

\* updateHomeSummary resolves and its caller runs to its end: saveCaptureToLog
\* resets the wizard and re-enables its button (app.js:1008-1019),
\* markIncidentSent reports "Marked as sent" and disables btn-mark-sent
\* (app.js:1066-1070)
SummaryDone ==
    \E i \in 1..Len(txQueue) :
        /\ Runnable(i)
        /\ txQueue[i].op = "getAll"
        /\ txQueue' = Without(txQueue, i)
        /\ CASE txQueue[i].caller = "save" ->
                   /\ state' = [resetWizardState(state) EXCEPT !.section = "home"]
                   /\ dom' = [resetWizardDom(dom) EXCEPT !.saveToLog = TRUE]
                   /\ registryResults' = NoResults
             [] txQueue[i].caller = "markSent" ->
                   /\ dom' = [dom EXCEPT !.sentStatus = "success", !.markSent = FALSE]
                   /\ UNCHANGED <<state, registryResults>>
             [] OTHER -> UNCHANGED <<state, dom, registryResults>>
        /\ UNCHANGED <<store, nextId, contacts, sendLog, logFrame>>

LogNext ==
    \/ Capture
    \/ Navigate
    \/ TakePhoto
    \/ Step0Next
    \/ ChooseCamera
    \/ Step1Next
    \/ StepBack
    \/ SaveCaptureToLog
    \/ Step2Next
    \/ MarkIncidentSent
    \/ NewRequest
    \/ OpenIncident
    \/ DeleteIncident
    \/ OpenGetDone
    \/ UpdateGetDone
    \/ UpdatePutDone
    \/ AddDone
    \/ RemoveDone
    \/ SummaryDone
    \/ Tick

LogSpec == LogInit /\ [][LogNext]_vars

(***************************************************************************)
(* StoreSpec: the incidentLog object of log.js called directly             *)
(*                                                                         *)
(* Every method is an async function: a call runs to its first await and   *)
(* leaves a transaction in txQueue; the steps below it are the             *)
(* transactions finishing.  Calls may overlap, as the unawaited update of  *)
(* buildAndShowLetter (app.js:936-939) does with whatever the user does    *)
(* next.                                                                   *)
(***************************************************************************)
MaxAdds == 2    \* add() calls, each drawing one id from crypto.randomUUID()

\* capture times a caller passes: the page load, or now
CaptureTimes(clock) == {toISOString(Date(0)), toISOString(Date(clock))}

\* the incident objects handed to add(): a capture, and a capture carrying
\* the id of a stored incident
AddInputs(entries, clock) ==
    LET plain == {[capturedAt |-> c] : c \in CaptureTimes(clock)}
    IN  plain \cup {Spread(incident, [id |-> e.id]) : incident \in plain, e \in entries}

\* the changes objects handed to update()
UpdateInputs(clock) ==
    {SentChanges(clock, [letterText |-> DraftLetter, subject |-> DraftSubject])}

\* the ids add() has handed out so far
IdsSoFar == {Uuid(n) : n \in 1..(nextId - 1)}

RECURSIVE InKeyOrder(_)
\* store.getAll(): the entries in key order
InKeyOrder(entries) ==
    IF entries = {} THEN <<>>
    ELSE LET first == CHOOSE e \in entries : \A f \in entries : e.id.uuid <= f.id.uuid
         IN  <<first>> \o InKeyOrder(entries \ {first})

\* one insertion of the stable sort: e goes behind every entry that is not
\* older than it
InsertNewestFirst(sorted, e) ==
    LET k == Cardinality({i \in 1..Len(sorted) : sorted[i].capturedAt.iso >= e.capturedAt.iso})
    IN  SubSeq(sorted, 1, k) \o <<e>> \o SubSeq(sorted, k + 1, Len(sorted))

RECURSIVE SortNewestFirst(_)
\* all.sort((a, b) => b.capturedAt.localeCompare(a.capturedAt))
SortNewestFirst(all) ==
    IF all = <<>> THEN <<>>
    ELSE InsertNewestFirst(SortNewestFirst(SubSeq(all, 1, Len(all) - 1)), all[Len(all)])

\* what getAll() resolves to (log.js:93-96)
getAllResult(entries) == SortNewestFirst(InKeyOrder(entries))

\* what counts() resolves to (log.js:104-111)
countsResult(all) ==
    [captured |-> Cardinality({i \in 1..Len(all) : all[i].status = "captured"}),
     sent     |-> Cardinality({i \in 1..Len(all) : all[i].status = "sent"}),
     total    |-> Len(all)]

storeFrame == <<db, cache, localCameras, call, state, registryResults, contributeStatus,
                letterVars, keyVars, dom, contacts, sendLog, sessionVars>>

StoreInit ==
    /\ RegistryIdle
    /\ LetterIdle
    /\ LogIdle
    /\ KeyIdle
    /\ ApiIdle
    /\ SessionIdle

\* incidentLog.add(incident) up to its await (log.js:58-76)
add ==
    \E incident \in AddInputs(store, now) :
        /\ nextId <= MaxAdds
        /\ Len(txQueue) < MaxInFlight
        /\ LET entry == NewEntry(Uuid(nextId), now, incident)
           IN  txQueue' = Append(txQueue, Tx("readwrite", "add", entry.id, entry, "add"))
        /\ nextId' = nextId + 1
        /\ UNCHANGED <<store, now, apiVars, storeFrame>>

\* the put of add commits and add returns entry.id (log.js:76-77)
addPut ==
    /\ Len(txQueue) > 0
    /\ txQueue[1].op = "add"
    /\ store' = StorePut(store, txQueue[1].value)
    /\ live' = live \cup {txQueue[1].id}
    /\ txQueue' = Tail(txQueue)
    /\ UNCHANGED <<nextId, now, answer, storeFrame>>

\* incidentLog.update(id, changes) up to its await of get (log.js:81-82)
update ==
    \E id \in IdsSoFar, changes \in UpdateInputs(now) :
        /\ Len(txQueue) < MaxInFlight
        /\ txQueue' = Append(txQueue, Tx("readonly", "get", id, changes, "update"))
        /\ UNCHANGED <<store, nextId, now, apiVars, storeFrame>>

\* the get of update resolves: a missing incident throws, otherwise the
\* merged entry goes into a read-write transaction (log.js:82-84)
updateGet ==
    \E i \in 1..Len(txQueue) :
        /\ Runnable(i)
        /\ txQueue[i].op = "get"
        /\ LET existing == StoreGet(store, txQueue[i].id)
           IN  IF existing = Null
               THEN /\ txQueue' = Without(txQueue, i)
                    /\ answer' = [op |-> "update", notFound |-> txQueue[i].id]
               ELSE /\ txQueue' = Append(Without(txQueue, i),
                                     Tx("readwrite", "put", txQueue[i].id,
                                        Spread(existing, txQueue[i].value), "update"))
                    /\ UNCHANGED answer
        /\ UNCHANGED <<store, nextId, now, live, storeFrame>>

\* the put of update commits (log.js:84)
updatePut ==
    /\ Len(txQueue) > 0
    /\ txQueue[1].op = "put"
    /\ store' = StorePut(store, txQueue[1].value)
    /\ txQueue' = Tail(txQueue)
    /\ UNCHANGED <<nextId, now, apiVars, storeFrame>>

\* incidentLog.remove(id) up to its await (log.js:99-100)
remove ==
    \E id \in IdsSoFar :
        /\ Len(txQueue) < MaxInFlight
        /\ txQueue' = Append(txQueue, Tx("readwrite", "delete", id, Null, "remove"))
        /\ UNCHANGED <<store, nextId, now, apiVars, storeFrame>>

\* the delete of remove commits (log.js:100)
removeDelete ==
    /\ Len(txQueue) > 0
    /\ txQueue[1].op = "delete"
    /\ store' = StoreDelete(store, txQueue[1].id)
    /\ live' = live \ {txQueue[1].id}
    /\ txQueue' = Tail(txQueue)
    /\ UNCHANGED <<nextId, now, answer, storeFrame>>

\* incidentLog.getAll() up to its await (log.js:93-94)
getAll ==
    /\ Len(txQueue) < MaxInFlight
    /\ txQueue' = Append(txQueue, Tx("readonly", "getAll", Null, Null, "getAll"))
    /\ UNCHANGED <<store, nextId, now, apiVars, storeFrame>>

\* incidentLog.counts() up to the await inside its getAll() (log.js:104-105)
counts ==
    /\ Len(txQueue) < MaxInFlight
    /\ txQueue' = Append(txQueue, Tx("readonly", "getAll", Null, Null, "counts"))
    /\ UNCHANGED <<store, nextId, now, apiVars, storeFrame>>

\* store.getAll() resolves; getAll sorts, and counts counts what getAll
\* returned (log.js:95, 106-110)
getAllDone ==
    \E i \in 1..Len(txQueue) :
        /\ Runnable(i)
        /\ txQueue[i].op = "getAll"
        /\ txQueue' = Without(txQueue, i)
        /\ answer' = IF txQueue[i].caller = "counts"
                     THEN [op |-> "counts", counts |-> countsResult(getAllResult(store))]
                     ELSE [op |-> "getAll", all |-> getAllResult(store)]
        /\ UNCHANGED <<store, nextId, now, live, storeFrame>>

StoreNext ==
    \/ Tick
    \/ add
    \/ addPut
    \/ update
    \/ updateGet
    \/ updatePut
    \/ remove
    \/ removeDelete
    \/ getAll
    \/ counts
    \/ getAllDone

StoreSpec == StoreInit /\ [][StoreNext]_vars

(***************************************************************************)
(* KeySpec: operatorKey of contacts.js as a function of its camera         *)
(***************************************************************************)
\* the operator names tried
KeyNames == SeqsUpTo(Chars, MaxNameLen)

\* shorter names, for the cameras whose key should not depend on the name
ShortNames == SeqsUpTo({"a", "B", " "}, 2)

\* operator ids of the registry's operators table
OperatorIds == {<<"o", "p", "1">>, <<"o", "p", "2">>}

\* a camera as btn-use-manual builds it (app.js:714-731)
ManualShape(name) == [operator |-> [name |-> name], manual |-> TRUE]

\* a camera as _fetchFromSupabase returns it, and as the cache then holds
\* it (registry.js:48-61): the operator's id is the camera's operator_id
RegistryShape(id, name) == [operator_id |-> id, operator |-> [name |-> name]]

\* a camera whose operator object has an id of its own, the one shape
\* operatorKey reads an id from
EmbeddedIdShape(id, name) == [operator |-> [id |-> id, name |-> name]]

\* a camera with a flat operatorName and no operator object
FlatShape(name) == [operator |-> Null, operatorName |-> name]

KeyCameras ==
    {Null}
    \cup {ManualShape(n) : n \in KeyNames}
    \cup {FlatShape(n) : n \in ShortNames}
    \cup {RegistryShape(id, n) : id \in OperatorIds, n \in ShortNames}
    \cup {EmbeddedIdShape(id, n) : id \in OperatorIds \cup {<<>>}, n \in ShortNames}

KeyInit ==
    /\ RegistryIdle
    /\ LetterIdle
    /\ LogIdle
    /\ ApiIdle
    /\ SessionIdle
    /\ keyIn \in KeyCameras
    /\ keyOut = Null

\* operatorKey(camera) is called and returns
OperatorKey ==
    /\ keyOut = Null
    /\ keyOut' = [key |-> operatorKey(keyIn)]
    /\ UNCHANGED <<keyIn, regVars, letterVars, logVars, apiVars, sessionVars>>

KeyNext == OperatorKey

KeySpec == KeyInit /\ [][KeyNext]_vars

(***************************************************************************)
(* ContactSpec: recordSARSent of contacts.js called directly, between the  *)
(* handlers that reset the wizard and delete incidents                     *)
(***************************************************************************)
MaxSends == 3    \* recordSARSent calls

\* the cameras SARs are sent for: two spellings of one operator's name, and
\* another operator taken from the registry
ContactCameras ==
    {ManualShape(ShopName), ManualShape(<<"a", "-", "B">>),
     RegistryShape(<<"o", "p", "1">>, <<"b", "1">>)}

ContactInit ==
    /\ RegistryIdle
    /\ LetterIdle
    /\ LogIdle
    /\ KeyIdle
    /\ ApiIdle
    /\ SessionIdle

\* markIncidentSent's record to the contact log (app.js:1028-1033):
\* recordSARSent(key, name) (contacts.js:41-50)
RecordSARSent ==
    \E cam \in ContactCameras :
        /\ Len(sendLog) < MaxSends
        /\ LET key  == operatorKey(cam)
               name == IF OperatorDotName(cam) # <<>> THEN OperatorDotName(cam) ELSE key
           IN  /\ contacts' = recordSARSent(contacts, key, name, now)
               /\ sendLog' = Append(sendLog, [key |-> key, at |-> now])
        /\ UNCHANGED <<store, txQueue, nextId, dom, regVars, letterVars, keyVars, apiVars, sessionVars>>

ContactNext ==
    \/ Tick
    \/ RecordSARSent
    \/ Navigate
    \/ ResetWizard
    \/ add
    \/ addPut
    \/ remove
    \/ removeDelete

ContactSpec == ContactInit /\ [][ContactNext]_vars

(***************************************************************************)
(* WarnSpec: the wizard and the log, started on a contact log that earlier *)
(* sessions left in localStorage                                           *)
(***************************************************************************)
\* the key and the sends of the operator the wizard's camera names, and one
\* send to another operator
Histories ==
    LET key  == operatorKey(ManualShape(ShopName))
        once == recordSARSent({}, key, ShopName, 0)
    IN  {{}, once, recordSARSent(once, key, ShopName, 0),
         recordSARSent({}, <<"o", "p", "1">>, <<"b", "1">>, 0)}

WarnInit ==
    /\ RegistryIdle
    /\ LetterIdle
    /\ KeyIdle
    /\ ApiIdle
    /\ SessionIdle
    /\ store = {}
    /\ txQueue = <<>>
    /\ nextId = 1
    /\ dom = InitialDom
    /\ contacts \in Histories
    /\ sendLog = <<>>

WarnNext ==
    \/ Capture
    \/ Navigate
    \/ TakePhoto
    \/ Step0Next
    \/ ChooseCamera
    \/ Step1Next
    \/ StepBack
    \/ SaveCaptureToLog
    \/ Step2Next
    \/ Mailto
    \/ MarkIncidentSent
    \/ NewRequest
    \/ OpenIncident
    \/ DeleteIncident
    \/ OpenGetDone
    \/ UpdateGetDone
    \/ UpdatePutDone
    \/ AddDone
    \/ RemoveDone
    \/ SummaryDone

WarnSpec == WarnInit /\ [][WarnNext]_vars

(***************************************************************************)
(* DateSpec: the incident date and time fields, on a device in any of      *)
(* three timezones, loaded shortly after or shortly before midnight UTC,   *)
(* with a log that may hold an incident stored by an earlier session       *)
(***************************************************************************)
\* getTimezoneOffset() is 60, 0 or -60: the device is behind, on, or ahead of UTC
Zones == {0 - 60, 0, 60}

\* the instants the page is loaded at: half past midnight and half past
\* eleven at night, UTC
Instants == {Ms(3, 0, 30, 0), Ms(3, 23, 30, 0)}

\* what the user types into #incident-date and #incident-time
TypedDate == "D9"
TypedTime == "09:09"

\* an incident captured the day before; older records lack date or time
EarlierIncident(date, time) ==
    NewEntry(Uuid(0), Ms(2, 12, 0, 0), [incidentDate |-> date, incidentTime |-> time])

\* the log at page load: empty, or one older record without time, or
\* without date and time
EarlierLogs == {{}, {EarlierIncident(TypedDate, "")}, {EarlierIncident("", "")}}

DateInit ==
    /\ db = {}
    /\ cache = Null
    /\ localCameras = <<>>
    /\ now \in Instants
    /\ call = NoCall
    /\ state = InitialState
    /\ registryResults = NoResults
    /\ contributeStatus = "hidden"
    /\ LetterIdle
    /\ KeyIdle
    /\ ApiIdle
    /\ store \in EarlierLogs
    /\ txQueue = <<>>
    /\ nextId = 1
    /\ dom = InitialDom
    /\ contacts = {}
    /\ sendLog = <<>>
    /\ inFlight = <<>>
    /\ profile = NoProfile
    /\ requests = <<>>
    /\ twin = Null
    /\ tz \in Zones

\* the user edits #incident-date and #incident-time on step 2, or clears them
EditIncidentDateTime ==
    \E d \in {"", TypedDate}, t \in {"", TypedTime} :
        /\ state.section = "request" /\ state.step = 2
        /\ dom' = [dom EXCEPT !.incidentDate = d, !.incidentTime = t]
        /\ UNCHANGED <<state, registryResults, store, txQueue, nextId, contacts, sendLog,
                       logFrame>>

DateNext ==
    \/ Capture
    \/ Navigate
    \/ TakePhoto
    \/ Step0Next
    \/ ChooseCamera
    \/ Step1Next
    \/ StepBack
    \/ EditIncidentDateTime
    \/ SaveCaptureToLog
    \/ AddDone
    \/ SummaryDone
    \/ OpenIncident
    \/ OpenGetDone

DateSpec == DateInit /\ [][DateNext]_vars

(***************************************************************************)
(* FlowSpec: captureGPS and searchRegistry with their promises pending     *)
(*                                                                         *)
(* captureGPS (app.js:641-679) and searchRegistry (app.js:741-819) are     *)
(* async functions that no caller awaits: a call leaves a request in       *)
(* inFlight and goes on when the request settles, whatever the user did    *)
(* in between.  A request remembers the photograph it was started for; it  *)
(* is marked stale when the user leaves the section or takes another       *)
(* photograph.                                                             *)
(***************************************************************************)
MaxPending == 2    \* requests in inFlight at once

\* a pending promise of loc.getPosition ("position"), loc.reverseGeocode
\* ("geocode") or registry.nearby ("nearby"); lat is the latitude the call
\* was given, which getPosition has none of
Request(kind, photo, lat) ==
    [kind |-> kind, photo |-> photo, lat |-> lat, stale |-> FALSE]

\* the user has left the flow every pending request was started in
Abandon(q) == [i \in 1..Len(q) |-> [q[i] EXCEPT !.stale = TRUE]]

\* state.location of captureGPS's catch, were it to drop the coordinates
NoLocation(lat) == Null

\* state.location as the catch of captureGPS builds it from the raw
\* coordinates (app.js:668-672)
RawLocation(lat) == [lat |-> lat, lng |-> 0, display |-> "lat, lng"]

\* searchRegistry up to its first return or await (app.js:741-786): what it
\* leaves in #registry-results and in inFlight
searchRegistry(st, q) ==
    IF st.location = Null
    THEN [results |-> "postcode_prompt", inFlight |-> q]
    ELSE [results |-> "searching",
          inFlight |-> Append(q, Request("nearby", st.photo, st.location.lat))]

\* if (state.step === 1) searchRegistry()
searchIfStep1(st, q, results) ==
    IF st.step = 1 THEN searchRegistry(st, q)
    ELSE [results |-> results, inFlight |-> q]

\* the registry FlowSpec runs on: one camera, at the southern end
FlowRegistry == {Row(1, CamLat(1))}

flowFrame == <<db, localCameras, now, contributeStatus, letterVars, keyVars, apiVars,
               profile, requests, twin, tz, store, txQueue, nextId, contacts, sendLog>>

FlowInit ==
    /\ db = FlowRegistry
    /\ cache = Null
    /\ localCameras = <<>>
    /\ now = 0
    /\ call = NoCall
    /\ state = InitialState
    /\ registryResults = NoResults
    /\ contributeStatus = "hidden"
    /\ LetterIdle
    /\ LogIdle
    /\ KeyIdle
    /\ ApiIdle
    /\ SessionIdle

\* .nav-btn.onclick while requests may be pending: showSection
NavigateAway ==
    \E section \in {"home", "request", "log"} :
        /\ state.section # section
        /\ state' = [state EXCEPT !.section = section]
        /\ inFlight' = Abandon(inFlight)
        /\ UNCHANGED <<flowFrame, dom, registryResults, cache, call>>

\* btn-take-photo.onclick with a photo taken (app.js:605-625): captureGPS()
\* is started and not awaited, and runs to its await of loc.getPosition
TakePhotoLocating ==
    /\ state.section = "request" /\ state.step = 0
    /\ Len(inFlight) < MaxPending
    /\ LET photo == [data |-> [img |-> TRUE], time |-> Date(now)]
       IN  /\ state' = [state EXCEPT !.photo = photo]
           /\ inFlight' = Append(Abandon(inFlight), Request("position", photo, Undefined))
    /\ dom' = [dom EXCEPT !.step0Next = TRUE, !.gpsStatus = "locating"]
    /\ UNCHANGED <<flowFrame, registryResults, cache, call>>

\* loc.getPosition resolves inside captureGPS, which goes on to its await of
\* loc.reverseGeocode (app.js:645, 659)
GetPositionDone ==
    \E i \in 1..Len(inFlight), lat \in {0, MaxLat} :
        /\ inFlight[i].kind = "position"
        /\ inFlight' = Append(Without(inFlight, i),
                              [inFlight[i] EXCEPT !.kind = "geocode", !.lat = lat])
        /\ UNCHANGED <<flowFrame, state, dom, registryResults, cache, call>>

\* loc.getPosition rejects inside captureGPS, which runs to its return
\* (app.js:646-654)
GetPositionFailed ==
    \E i \in 1..Len(inFlight) :
        /\ inFlight[i].kind = "position"
        /\ LET s == searchIfStep1(state, Without(inFlight, i), registryResults)
           IN  /\ registryResults' = s.results
               /\ inFlight' = s.inFlight
        /\ dom' = [dom EXCEPT !.gpsStatus = "unavailable"]
        /\ UNCHANGED <<flowFrame, state, cache, call>>

\* loc.reverseGeocode resolves inside captureGPS, which runs to its end
\* (app.js:659-665)
ReverseGeocodeDone ==
    \E i \in 1..Len(inFlight) :
        /\ inFlight[i].kind = "geocode"
        /\ state' = [state EXCEPT !.location = Location(inFlight[i].lat)]
        /\ inFlight' = Without(inFlight, i)
        /\ dom' = [dom EXCEPT !.gpsStatus = "address"]
        /\ UNCHANGED <<flowFrame, registryResults, cache, call>>

\* loc.reverseGeocode rejects inside captureGPS, which runs to its end
\* (app.js:666-678)
ReverseGeocodeFailed ==
    \E i \in 1..Len(inFlight) :
        /\ inFlight[i].kind = "geocode"
        /\ LET st == [state EXCEPT !.location = RawLocation(inFlight[i].lat)]
               s  == searchIfStep1(st, Without(inFlight, i), registryResults)
           IN  /\ state' = st
               /\ registryResults' = s.results
               /\ inFlight' = s.inFlight
        /\ dom' = [dom EXCEPT !.gpsStatus = "coordinates"]
        /\ UNCHANGED <<flowFrame, cache, call>>

\* btn-step0-next.onclick (app.js:627-633): showStep(1); searchRegistry()
Step0NextSearching ==
    /\ state.section = "request" /\ state.step = 0
    /\ dom.step0Next
    /\ state.location # Null => Len(inFlight) < MaxPending
    /\ LET st == [state EXCEPT !.step = 1]
           s  == searchRegistry(st, inFlight)
       IN  /\ state' = st
           /\ registryResults' = s.results
           /\ inFlight' = s.inFlight
    /\ dom' = [dom EXCEPT !.saveToLog = TRUE]
    /\ UNCHANGED <<flowFrame, cache, call>>

\* registry.nearby settles inside searchRegistry, which runs to its end
\* (app.js:783-819)
NearbySettled ==
    \E i \in 1..Len(inFlight), kind \in FetchKinds :
        /\ inFlight[i].kind = "nearby"
        /\ LET lat == inFlight[i].lat
               res == nearby(lat, 0, DefaultRadiusM,
                             Response(kind, lat, 0, DefaultRadiusM),
                             cache, localCameras, now)
           IN  /\ call' = CallRecord(lat, 0, DefaultRadiusM, kind, res)
               /\ cache' = res.cache
               /\ registryResults' =
                      IF res.threw THEN "offline"
                      ELSE IF Len(res.value) = 0 THEN "none_found"
                      ELSE "items"
        /\ inFlight' = Without(inFlight, i)
        /\ UNCHANGED <<flowFrame, state, dom>>

FlowNext ==
    \/ Capture
    \/ NavigateAway
    \/ TakePhotoLocating
    \/ GetPositionDone
    \/ GetPositionFailed
    \/ ReverseGeocodeDone
    \/ ReverseGeocodeFailed
    \/ Step0NextSearching
    \/ NearbySettled
    \/ StepBack
    \/ SaveCaptureToLog
    \/ AddDone
    \/ SummaryDone

FlowSpec == FlowInit /\ [][FlowNext]_vars

(***************************************************************************)
(* ClickSpec: one photograph taken through the wizard to step 3, where     *)
(* btn-mark-sent may be clicked again while markIncidentSent is awaiting   *)
(* the log: the button is disabled only on the handler's last line         *)
(* (app.js:1069).                                                          *)
(***************************************************************************)
MaxClicks == 2     \* clicks on btn-mark-sent that find the button enabled

MarkSentClicked == MarkIncidentSentWithin(MaxClicks, MaxClicks)

ClickNext ==
    \/ Capture
    \/ Navigate
    \/ TakePhoto
    \/ Step0Next
    \/ ChooseCamera
    \/ Step1Next
    \/ StepBack
    \/ Step2Next
    \/ MarkSentClicked
    \/ Mailto
    \/ AddDone
    \/ SummaryDone

ClickSpec == LogInit /\ [][ClickNext]_vars

(***************************************************************************)
(* PrivacySpec: two wizards given the same events on two stored profiles   *)
(*                                                                         *)
(* The first wizard lives in the variables of the module (profile, state,  *)
(* letterIn, letterOut, requests); the second in the record twin.  A       *)
(* session is what one wizard holds: the stored profile, state.location,   *)
(* state.selectedCamera, the letter buildAndShowLetter produced and the    *)
(* fetch() calls issued so far.  Every handler is a function from session  *)
(* to session, applied to both wizards in the same step with the same      *)
(* input.                                                                  *)
(***************************************************************************)
MaxRequests == 3   \* fetch() calls one wizard issues

\* the profiles a wizard may have stored (storage.saveProfile)
StoredProfiles == [name : {"", "Ada Lovelace"}, address : {"1 High Street"},
                   email : {"", "ada@example.org"}]

\* what the user typed into manual-org, manual-ico, manual-email, manual-addr
ManualOperators ==
    [name : {"Corner Shop"}, ico_reg : {""}, privacy_email : {"", "dpo@shop.example"},
     postal_address : {""}]

\* the camera object btn-use-manual builds (app.js:718-730), with the
\* operator fields the letter and the contribution read
TypedCamera(op, location) ==
    [id            |-> [kind |-> "manual", n |-> 0],
     lat           |-> IF location = Null THEN Undefined ELSE location.lat,
     lng           |-> IF location = Null THEN Undefined ELSE location.lng,
     location_desc |-> IF location = Null THEN "" ELSE location.display,
     operator      |-> op,
     manual        |-> TRUE]

NewSession(p) ==
    [profile |-> p, location |-> Null, selectedCamera |-> Null, letter |-> Null,
     requests |-> <<>>]

\* the session of the first wizard
Session ==
    [profile |-> profile, location |-> state.location,
     selectedCamera |-> state.selectedCamera, letter |-> letterOut,
     requests |-> requests]

\* fetch(url) of loc.reverseGeocode (location.js:30-36)
reverseGeocodeRequest(lat, lng) ==
    [to |-> "nominatim.openstreetmap.org/reverse", body |-> [lat |-> lat, lon |-> lng]]

\* fetch(...) of registry._fetchFromSupabase (registry.js:36-44)
camerasWithinRequest(lat, lng, radiusM) ==
    [to   |-> "rest/v1/rpc/cameras_within",
     body |-> [user_lat |-> lat, user_lng |-> lng, radius_m |-> radiusM]]

\* fetch(...) of registry.submitContribution (registry.js:131-150); null is ""
submitContribution(camera, location) ==
    [to   |-> "rest/v1/pending_cameras",
     body |-> [lat            |-> IF location = Null THEN 0 ELSE location.lat,
               lng            |-> IF location = Null THEN 0 ELSE location.lng,
               location_desc  |-> Or(camera.location_desc,
                                     IF location = Null THEN "" ELSE location.display),
               operator_name  |-> camera.operator.name,
               ico_reg        |-> camera.operator.ico_reg,
               privacy_email  |-> camera.operator.privacy_email,
               postal_address |-> camera.operator.postal_address]]

\* the argument buildAndShowLetter hands to generateLetter (app.js:922-927)
LetterArgs(w, clock) ==
    [profile |-> w.profile, camera |-> w.selectedCamera, location |-> w.location,
     photoTime |-> Date(clock), incidentTime |-> Null, description |-> ""]

\* captureGPS with both requests answered (app.js:641-665)
located(w, lat) ==
    [w EXCEPT !.requests = Append(@, reverseGeocodeRequest(lat, 0)),
              !.location = Location(lat)]

\* searchRegistry on a known location (app.js:783-786)
searched(w) ==
    [w EXCEPT !.requests =
        Append(@, camerasWithinRequest(w.location.lat, w.location.lng, DefaultRadiusM))]

\* btn-use-manual.onclick (app.js:710-735)
manualChosen(w, op) == [w EXCEPT !.selectedCamera = TypedCamera(op, w.location)]

\* buildAndShowLetter (app.js:921-956)
letterBuilt(w, clock) == [w EXCEPT !.letter = generateLetter(LetterArgs(w, clock), clock)]

\* btn-contribute.onclick, were the contribution to carry the user's email
contributedWithEmail(w) ==
    [w EXCEPT !.requests =
        Append(@, [submitContribution(w.selectedCamera, w.location)
                      EXCEPT !.body.privacy_email = w.profile.email])]

\* btn-contribute.onclick (app.js:891-918): the request it issues
contributed(w) ==
    [w EXCEPT !.requests = Append(@, submitContribution(w.selectedCamera, w.location))]

\* the first wizard takes the session w
Becomes(w) ==
    /\ state' = [state EXCEPT !.location = w.location,
                              !.selectedCamera = w.selectedCamera]
    /\ letterOut' = w.letter
    /\ requests' = w.requests

privacyFrame == <<db, cache, localCameras, now, call, registryResults, contributeStatus,
                  logVars, keyVars, apiVars, inFlight, profile, tz>>

PrivacyInit ==
    /\ RegistryIdle
    /\ LetterIdle
    /\ LogIdle
    /\ KeyIdle
    /\ ApiIdle
    /\ inFlight = <<>>
    /\ tz = 0
    /\ requests = <<>>
    /\ profile \in StoredProfiles
    /\ \E p \in StoredProfiles : twin = NewSession(p)

\* both wizards: photo taken, position found and reverse-geocoded
CaptureGPSBoth ==
    \E lat \in {0, MaxLat} :
        /\ Len(requests) < MaxRequests
        /\ Becomes(located(Session, lat))
        /\ twin' = located(twin, lat)
        /\ UNCHANGED <<privacyFrame, letterIn>>

\* both wizards: searchRegistry
SearchRegistryBoth ==
    /\ state.location # Null
    /\ Len(requests) < MaxRequests
    /\ Becomes(searched(Session))
    /\ twin' = searched(twin)
    /\ UNCHANGED <<privacyFrame, letterIn>>

\* both wizards: btn-use-manual with the same details typed
UseManualBoth ==
    \E op \in ManualOperators :
        /\ Becomes(manualChosen(Session, op))
        /\ twin' = manualChosen(twin, op)
        /\ UNCHANGED <<privacyFrame, letterIn>>

\* both wizards: btn-step2-next, buildAndShowLetter
BuildLetterBoth ==
    /\ letterIn' = LetterArgs(Session, now)
    /\ Becomes(letterBuilt(Session, now))
    /\ twin' = letterBuilt(twin, now)
    /\ UNCHANGED privacyFrame

\* both wizards: btn-contribute
ContributeBoth ==
    /\ state.selectedCamera # Null /\ state.location # Null
    /\ Len(requests) < MaxRequests
    /\ Becomes(contributed(Session))
    /\ twin' = contributed(twin)
    /\ UNCHANGED <<privacyFrame, letterIn>>

PrivacyNext ==
    \/ CaptureGPSBoth
    \/ SearchRegistryBoth
    \/ UseManualBoth
    \/ BuildLetterBoth
    \/ ContributeBoth

PrivacySpec == PrivacyInit /\ [][PrivacyNext]_vars

(***************************************************************************)
(* Claims about registry.nearby                                            *)
(***************************************************************************)
Called == call.branch # "none"

\* great-circle distance of a camera from the query point of the last call
TrueDistance(c) == _dist(call.lat, call.lng, c.lat, c.lng)

WithinRadiusAscending(s) ==
    /\ \A i \in 1..Len(s) : TrueDistance(s[i]) <= call.radiusM
    /\ \A i, j \in 1..Len(s) : i < j => TrueDistance(s[i]) <= TrueDistance(s[j])

\* the cameras of the last result that are not the user's own entries
RegistryPart == SeqFilter(call.value, {c \in SeqRange(call.value) : ~c.local})

\* the local cameras that were stored when the last call was made
LocalAtCall == SubSeq(localCameras, 1, call.nLocal)

\* what the remote path answers for a query, before local entries are added
RemoteAnswer(lat, lng, radiusM) ==
    _fetchFromSupabase(Response("ok", lat, lng, radiusM)).value

Ids(s) == [i \in 1..Len(s) |-> s[i].id]

C3_CachePathEqualsRemotePath ==
    call.branch = "cache" =>
        Ids(call.value) =
            Ids(RemoteAnswer(call.lat, call.lng, call.radiusM) \o LocalAtCall)

\* the cached set is what the remote path answers at the point of the last
\* call for some radius not below the requested one
CacheCoversQuery ==
    /\ cache # Null
    /\ \E r2 \in Radii :
          /\ r2 >= call.radiusM
          /\ cache.data = RemoteAnswer(call.lat, call.lng, r2)

\* C3 amended: when the cached set is the result set of a remote query at the
\* same point with a radius of at least r over the same registry data, the
\* cache-fallback path returns the membership and order of the remote path.
C3_CachePathEqualsRemoteWhenCovered ==
    (call.branch = "cache" /\ CacheCoversQuery) =>
        Ids(call.value) =
            Ids(RemoteAnswer(call.lat, call.lng, call.radiusM) \o LocalAtCall)

\* a covered cache-fallback answer that keeps a cached camera and cuts one off
C3_Witness ==
    /\ call.branch = "cache"
    /\ CacheCoversQuery
    /\ Len(RegistryPart) >= 1
    /\ Len(cache.data) > Len(RegistryPart)

\* C4: when the remote query fails, the cached set is used if and only if
\* one exists whose timestamp is at most 12 hours old; otherwise the result
\* is exactly the locally saved entries.
C4_CacheUsedIffFresh ==
    (Called /\ ~call.fetchOk) =>
        LET fresh == cache # Null /\ call.clock - cache.time <= 12 * 60 * 60 * 1000
        IN  call.value =
                IF fresh
                THEN _distFilter(cache.data, call.lat, call.lng, call.radiusM)
                        \o LocalAtCall
                ELSE LocalAtCall

\* a failed query that found an expired cache holding a camera within r
C4_Witness ==
    /\ Called /\ ~call.fetchOk
    /\ cache # Null
    /\ call.clock - cache.time > 12 * 60 * 60 * 1000
    /\ _distFilter(cache.data, call.lat, call.lng, call.radiusM) # <<>>
    /\ call.value = LocalAtCall

\* C5: a query whose fetch failed and found no usable cache is observable
\* by the caller as a failure (searchRegistry shows its offline message), so
\* it differs from a reached registry answering zero rows.
C5_UnreachableRegistryObservable ==
    (Called /\ ~call.fetchOk /\ _loadCache(cache, call.clock) = Null) =>
        (call.threw /\ registryResults = "offline")

\* the user's copy of the camera being contributed
HasLocalCopy(stored, camera, location) ==
    \E i \in 1..Len(stored) :
        /\ stored[i].local
        /\ stored[i].operator = camera.operator
        /\ stored[i].lat = location.lat
        /\ stored[i].lng = location.lng

\* C6: when a contribution fails the failure is reported and the user's
\* local copy of the contributed camera is stored.
C6_FailedContributionKeepsLocalCopy ==
    [][(contributeStatus # "failed" /\ contributeStatus' = "failed") =>
          HasLocalCopy(localCameras', state.selectedCamera, state.location)]_vars

(***************************************************************************)
(* Claims about the letter generator, checked under LetterSpec             *)
(***************************************************************************)
LetterDone == letterOut # Null /\ ~letterOut.threw

\* the texts the letter prints for one template expression
SlotText(expr) ==
    {letterOut.text[i].text : i \in {j \in DOMAIN letterOut.text : letterOut.text[j].expr = expr}}

TimeSlots == {"today", "incidentTimeStr", "incidentDateStr", "fromTime", "toTime"}

\* every text the letter prints outside its date and time slots
FieldTexts ==
    {letterOut.text[i].text :
        i \in {j \in DOMAIN letterOut.text : letterOut.text[j].expr \notin TimeSlots}}

\* the texts of the model that are written in square brackets
Bracketed ==
    {"[YOUR NAME]", "[YOUR EMAIL]", "[DATA CONTROLLER NAME]", "[DATA CONTROLLER ADDRESS]",
     "[CAMERA LOCATION]", "[Please describe yourself here]",
     "[DATE]", "[TIME]", "[FROM]", "[TO]"}

FieldNames ==
    {"name", "address", "email", "operator name", "operator address",
     "registration id", "location description", "self-description"}

OperatorOf(args) == IF args.camera = Null THEN Null ELSE args.camera.operator

\* the value the caller supplied for a field, "" when it supplied none
FieldValue(args, f) ==
    CASE f = "name"    -> IF args.profile = Null THEN "" ELSE args.profile.name
      [] f = "address" -> IF args.profile = Null THEN "" ELSE args.profile.address
      [] f = "email"   -> IF args.profile = Null THEN "" ELSE args.profile.email
      [] f = "operator name" ->
            IF OperatorOf(args) = Null THEN "" ELSE OperatorOf(args).name
      [] f = "operator address" ->
            IF OperatorOf(args) = Null THEN "" ELSE OperatorOf(args).postal_address
      [] f = "registration id" ->
            IF OperatorOf(args) = Null THEN "" ELSE OperatorOf(args).ico_reg
      [] f = "location description" ->
            IF args.camera # Null /\ args.camera.location_desc # ""
            THEN args.camera.location_desc
            ELSE IF args.location = Null THEN "" ELSE args.location.display
      [] f = "self-description" ->
            IF args.description = " red coat, tall " THEN "red coat, tall"
            ELSE IF args.description = "  " THEN "" ELSE args.description

AbsentFields(args) == {f \in FieldNames : FieldValue(args, f) = ""}

\* the field's value is printed, alone or after a label
Shown(v) == \E t \in FieldTexts : t \in {v, "ICO Registration No: " \o v}

\* C7: generateLetter called with an entirely empty input object raises no
\* exception and returns a non-empty letter.
C7_EmptyInputYieldsLetter ==
    (letterIn # Null /\ letterIn = EmptyInput /\ letterOut # Null)
        => (~letterOut.threw /\ Len(letterOut.text) > 0)

\* C8 as stated: whatever subset of the eight optional fields is absent, the
\* letter prints one distinct bracketed placeholder per absent field and the
\* value of every present field.
C8_EveryFieldPlaceholderOrValue ==
    (letterIn # Null /\ LetterDone) =>
        /\ Cardinality(FieldTexts \cap Bracketed) >= Cardinality(AbsentFields(letterIn))
        /\ \A f \in FieldNames \ AbsentFields(letterIn) : Shown(FieldValue(letterIn, f))

\* the template slot of each field that the letter renders
RenderedFields ==
    {"name", "email", "operator name", "operator address",
     "location description", "self-description"}

SlotOf(f) ==
    CASE f = "name"  -> "name"
      [] f = "email" -> "email"
      [] f = "operator name" -> "opName"
      [] f = "operator address" -> "opAddr"
      [] f = "location description" -> "camDesc"
      [] f = "self-description" -> "desc"

\* C8: given a profile object, each of name, email, operator name, operator
\* address, location description and self-description is printed as its value
\* when present and as a bracketed placeholder when absent, two different
\* absent fields never sharing a placeholder; the registration id is printed
\* as "ICO Registration No: <id>" when present and its line is left out when
\* absent; the profile's postal address is never printed.
C8_RenderedFieldsPlaceholderOrValue ==
    (letterIn # Null /\ LetterDone) =>
        /\ \A f \in RenderedFields :
              IF FieldValue(letterIn, f) # ""
              THEN SlotText(SlotOf(f)) = {FieldValue(letterIn, f)}
              ELSE SlotText(SlotOf(f)) # {} /\ SlotText(SlotOf(f)) \subseteq Bracketed
        /\ \A f, g \in RenderedFields \cap AbsentFields(letterIn) :
              f # g => SlotText(SlotOf(f)) \cap SlotText(SlotOf(g)) = {}
        /\ SlotText("icoLine") =
              {IF FieldValue(letterIn, "registration id") # ""
               THEN "ICO Registration No: " \o FieldValue(letterIn, "registration id")
               ELSE ""}
        /\ FieldValue(letterIn, "address") # ""
              => FieldValue(letterIn, "address") \notin FieldTexts

\* a letter from a profile with a postal address but no name, no registration
\* id and no self-description, for a camera whose operator has a name
C8_Witness ==
    /\ letterIn # Null
    /\ LetterDone
    /\ FieldValue(letterIn, "name") = ""
    /\ FieldValue(letterIn, "address") # ""
    /\ FieldValue(letterIn, "email") # ""
    /\ FieldValue(letterIn, "operator name") # ""
    /\ FieldValue(letterIn, "operator address") = ""
    /\ FieldValue(letterIn, "registration id") = ""
    /\ FieldValue(letterIn, "self-description") = ""
    /\ SlotText("name") = {"[YOUR NAME]"}
    /\ SlotText("opAddr") = {"[DATA CONTROLLER ADDRESS]"}

MinuteOfDay(d) == (d.time \div 60000) % (24 * 60)

\* the clock reading "HH:MM" of a minute count, taken modulo one day
ClockText(m) ==
    LET r == m % (24 * 60)
    IN  (IF r \div 60 < 10 THEN "0" ELSE "") \o ToString(r \div 60) \o ":" \o
        (IF r % 60 < 10 THEN "0" ELSE "") \o ToString(r % 60)

EffectiveIncidentTime(args) ==
    IF args.incidentTime # Null THEN args.incidentTime ELSE args.photoTime

C10_SentNeverRevertsToCaptured ==
    [][\A e \in store : e.status = "sent" =>
          \A f \in store' : f.id = e.id => f.status # "captured"]_vars

\* the ids incidentLog.add can hand out
IncidentIds == {Uuid(n) : n \in 1..MaxIncidents}

\* this step is the end of a markIncidentSent call on incident id: its
\* updateHomeSummary resolves and #sent-status reads "Marked as sent"
MarkSentReported(id) ==
    \E i \in 1..Len(txQueue) :
        /\ Runnable(i)
        /\ txQueue[i] = MarkSentSummary(id)
        /\ txQueue' = Without(txQueue, i)
        /\ dom'.sentStatus = "success"

\* C11: when the mark-sent action completes for an incident, that is, when
\* the wizard reports it as marked sent, that incident is stored in the log
\* with status sent and a non-null sarSentAt.
C11_MarkedSentIsStoredSent ==
    [][\A id \in IncidentIds :
          MarkSentReported(id) =>
              \E e \in store' : e.id = id /\ e.status = "sent" /\ e.sarSentAt # Null]_vars

\* the entries incidentLog.update has merged and not yet put
PendingPuts == {txQueue[i] : i \in {j \in 1..Len(txQueue) : txQueue[j].op = "put"}}

\* C12: after an incident is created, no operation on it (update, letter
\* regeneration, mark as sent, reopening from the log) changes its id or its
\* capture timestamp: an entry stored under an id keeps its capture
\* timestamp from one state to the next, and every update writes, under the
\* id it was asked for, the capture timestamp stored under that id.
C12_IdAndCaptureTimeNeverChange ==
    [][/\ \A e \in store : \A f \in store' :
              f.id = e.id => f.capturedAt = e.capturedAt
       /\ \A w \in PendingPuts :
              /\ w.value.id = w.id
              /\ \A e \in store : e.id = w.id => e.capturedAt = w.value.capturedAt
       /\ (store' # store /\ txQueue[1].op = "put") =>
              /\ store' = StorePut(store, txQueue[1].value)
              /\ {f.id : f \in store'} \subseteq {e.id : e \in store} \cup {txQueue[1].id}]_vars

\* an incident reopened from the log and marked as sent at a later time than
\* its capture: the update has merged its entry, which is about to be put
C12_Witness ==
    \E w \in PendingPuts :
        /\ w.caller = "markSent"
        /\ state.currentIncidentId = w.id
        /\ w.value.sarSentAt.iso > w.value.capturedAt.iso
        /\ \E e \in store : e.id = w.id /\ e.status = "captured"

\* the fields named in the changes object of each caller of update:
\* buildAndShowLetter (app.js:937) and markIncidentSent (app.js:1037-1042)
ChangedFields(caller) ==
    IF caller = "letter"
    THEN {"letterText", "subjectLine"}
    ELSE {"status", "sarSentAt", "letterText", "subjectLine"}

\* this step is the put of an update() changing the store
UpdateCommits == txQueue # <<>> /\ txQueue[1].op = "put" /\ store' # store

\* C14: update(id, changes) on an existing incident sets exactly the fields
\* named in changes: every other field of that incident, and every other
\* incident, is after the update what it was before it.
C14_UpdateChangesOnlyNamedFields ==
    [][UpdateCommits =>
          LET e == StoreGet(store, txQueue[1].id)
              f == StoreGet(store', txQueue[1].id)
          IN  e # Null =>
                  /\ \A field \in DOMAIN e \ ChangedFields(txQueue[1].caller) :
                         f[field] = e[field]
                  /\ store' \ {f} = store \ {e}]_vars

\* this step is the get of a wizard update() finding no incident: update
\* throws (log.js:83) into the caller's .catch(() => {})
UpdateFails(i) ==
    /\ Runnable(i)
    /\ txQueue[i].op = "get"
    /\ txQueue[i].caller \in {"letter", "markSent"}
    /\ StoreGet(store, txQueue[i].id) = Null
    /\ txQueue' \in {Without(txQueue, i),
                     Append(Without(txQueue, i), MarkSentSummary(txQueue[i].id))}

\* C15: a request to update an incident id that is not in the log is
\* surfaced immediately as a failure and never silently ignored, also when
\* the wizard's letter regeneration or mark-sent issues it: the step in which
\* the update fails changes what the wizard shows, and leaves the log
\* unchanged.
C15_MissingIdUpdateSurfaced ==
    [][\A i \in 1..Len(txQueue) :
          UpdateFails(i) => dom' # dom /\ store' = store]_vars

(***************************************************************************)
(* Claims about incidentLog, checked under StoreSpec                       *)
(***************************************************************************)
\* this step is the put of an add() committing
AddCommits == txQueue # <<>> /\ txQueue[1].op = "add" /\ txQueue' = Tail(txQueue)

ReadAfterAll ==
    /\ Len(txQueue) = 1
    /\ txQueue[1].op = "getAll"
    /\ txQueue' = <<>>

\* the incidents in all are the live ones, each exactly once, newest first
ListsLive(all) ==
    /\ {all[i].id : i \in 1..Len(all)} = live
    /\ Len(all) = Cardinality(live)
    /\ \A i \in 1..(Len(all) - 1) : all[i].capturedAt.iso >= all[i + 1].capturedAt.iso

\* c counts the live incidents by status
CountsLive(c) ==
    /\ c.total = Cardinality(live)
    /\ c.captured = Cardinality({e \in store : e.id \in live /\ e.status = "captured"})
    /\ c.sent = Cardinality({e \in store : e.id \in live /\ e.status = "sent"})

\* C16: after any sequence of add, update and remove operations, getAll
\* returns every incident that was added and not removed exactly once,
\* ordered newest-first by capture time, and counts reports the number of
\* those incidents per status.
C16_GetAllListsLiveNewestFirst ==
    [][ReadAfterAll =>
          IF answer'.op = "counts"
          THEN CountsLive(answer'.counts)
          ELSE ListsLive(answer'.all)]_vars

(***************************************************************************)
(* Claims about operatorKey, checked under KeySpec                         *)
(***************************************************************************)
KeyReturned == keyOut # Null

\* letters and digits, in either case
IsAlnum(c) == c \in {"a", "A", "b", "B", "1"}

\* the number of leading alphanumeric characters of str
AlnumPrefixLen(str) ==
    CHOOSE k \in 0..Len(str) :
        /\ \A i \in 1..k : IsAlnum(str[i])
        /\ k = Len(str) \/ ~IsAlnum(str[k + 1])

\* a character with its letter case folded away
FoldCase(c) == IF c = "A" THEN "a" ELSE IF c = "B" THEN "b" ELSE c

RECURSIVE Words(_)
\* the maximal runs of alphanumeric characters of a name, case folded: what
\* is left of a name once letter case and the runs of other characters
\* between, before and after them are disregarded
Words(str) ==
    IF str = <<>> THEN <<>>
    ELSE IF ~IsAlnum(Head(str)) THEN Words(Tail(str))
    ELSE LET k == AlnumPrefixLen(str)
         IN  <<[i \in 1..k |-> FoldCase(str[i])]>> \o Words(SubSeq(str, k + 1, Len(str)))

\* C17: for a camera without an operator id, operatorKey maps any two
\* operator names that differ only in letter case and in runs of
\* non-alphanumeric characters, leading and trailing ones included, to the
\* same key; a missing name or one with no alphanumeric character maps to
\* the key unknown.
C17_KeyIgnoresCaseAndSeparators ==
    (KeyReturned /\ OperatorIdOf(keyIn) = <<>>) =>
        LET name == OperatorNameOf(keyIn)
        IN  /\ Words(name) = <<>> => keyOut.key = Unknown
            /\ \A other \in KeyNames :
                   Words(other) = Words(name) =>
                       operatorKey(ManualShape(other)) = keyOut.key

\* a name with an upper-case letter between a leading and a trailing
\* separator has the key of the bare lower-case letter
C17_Witness ==
    /\ KeyReturned
    /\ keyIn = ManualShape(<<" ", "A", "!">>)
    /\ keyOut.key = <<"a">>
    /\ operatorKey(ManualShape(<<"a">>)) = keyOut.key

\* the registry operator id a camera carries, "" when it carries none
CarriedOperatorId(camera) ==
    IF OperatorIdOf(camera) # <<>> THEN OperatorIdOf(camera)
    ELSE IF camera # Null /\ "operator_id" \in DOMAIN camera THEN camera.operator_id
    ELSE <<>>

\* C18: for a camera that carries a stable registry operator id, as every
\* camera returned by the remote path does, operatorKey returns that id; the
\* name-derived slug is used only when no id is present.
C18_KeyIsRegistryOperatorId ==
    (KeyReturned /\ CarriedOperatorId(keyIn) # <<>>) =>
        keyOut.key = CarriedOperatorId(keyIn)

(***************************************************************************)
(* Claims about the contact history, checked under ContactSpec             *)
(***************************************************************************)
\* the positions in sendLog of the sends recorded for key
SendsFor(key) == {i \in 1..Len(sendLog) : sendLog[i].key = key}

\* the position of the latest of them
LastSendFor(key) == CHOOSE i \in SendsFor(key) : \A j \in SendsFor(key) : j <= i

\* C19: a contact record is created by the first recorded send for an
\* operator key; from then on its count equals the number of sends recorded
\* for that key and its lastSent is the time of the most recent one; no
\* contact record is ever removed, neither by deleting incidents nor by
\* resetting the wizard.
C19_ContactCountsSends ==
    /\ \A r \in contacts :
           /\ SendsFor(r.key) # {}
           /\ r.count = Cardinality(SendsFor(r.key))
           /\ r.lastSent = toISOString(Date(sendLog[LastSendFor(r.key)].at))
    /\ \A i \in 1..Len(sendLog) : \E r \in contacts : r.key = sendLog[i].key
    /\ \A r, q \in contacts : r.key = q.key => r = q

\* two sends to one operator under two spellings of its name, the second
\* later than the first, and one to another operator; an incident was
\* deleted and the wizard is back at its start
C19_Witness ==
    /\ \E r \in contacts : r.count = 2 /\ r.lastSent.iso > sendLog[1].at
    /\ Cardinality(contacts) = 2
    /\ nextId > 1 /\ live = {} /\ txQueue = <<>>
    /\ state.section = "home"

(***************************************************************************)
(* Claims about the repeat-request warning, checked under WarnSpec         *)
(***************************************************************************)
\* the wizard shows its send step
AtSendStep == state.section = "request" /\ state.step = 3

\* this step generates the letter: btn-step2-next takes the wizard from the
\* details step to the send step, and no transaction finishes in it
LetterGenerated ==
    /\ state.section = "request" /\ state.step = 2
    /\ state' = [state EXCEPT !.step = 3]
    /\ Len(txQueue') >= Len(txQueue)

\* the operator of the selected camera has a contact history
HasHistory ==
    /\ state.selectedCamera # Null
    /\ ContactGet(contacts, operatorKey(state.selectedCamera)) # Null

\* C20: for every contact history, the wizard still lets the user generate
\* the letter, open the mail composer and mark the request as sent; the
\* history decides only whether the warning is shown.  Generating the letter
\* fills in letter and subject and shows the warning exactly when the
\* operator has a history, changing nothing else of the form; on the send
\* step the mail composer can always be opened, "Mark as Sent" is disabled
\* only by a completed mark-sent, and an enabled "Mark as Sent" acts.
C20_WarningNeverBlocks ==
    /\ [][LetterGenerated =>
             dom' = [dom EXCEPT !.letterText = DraftLetter, !.subject = DraftSubject,
                                !.sarWarning = HasHistory]]_vars
    /\ [](AtSendStep => ENABLED Mailto)
    /\ [](~dom.markSent => dom.sentStatus = "success")
    /\ []((/\ AtSendStep /\ dom.markSent
           /\ Len(txQueue) < MaxInFlight
           /\ Len(sendLog) < MaxSars
           /\ nextId <= MaxIncidents) => ENABLED MarkIncidentSent)

\* the warning is shown for an operator with two earlier requests; the mail
\* composer was opened on the generated letter and the request was marked
\* as sent, which the contact log counts as the third
C20_Witness ==
    /\ AtSendStep
    /\ dom.sarWarning
    /\ dom.mailto # Null /\ dom.mailto.body = DraftLetter
    /\ dom.sentStatus = "success"
    /\ \E r \in contacts : r.key = operatorKey(state.selectedCamera) /\ r.count = 3

(***************************************************************************)
(* Claims about the registry cache, checked under RegistrySpec             *)
(***************************************************************************)
\* this step is a registry.nearby call: of the three operations of
\* RegistrySpec it alone leaves the clock and the local cameras alone
NearbyReturns == now' = now /\ localCameras' = localCameras

\* C25 as stated: after every successful remote query of registry.nearby the
\* cache holds exactly that query's result set, without the user's local
\* entries, stamped with the current time, and the caller receives that
\* result set; a failed query leaves the cache and its timestamp unchanged.
C25_CacheHoldsWhatCallerReceives ==
    [][NearbyReturns =>
          IF call'.fetchOk
          THEN /\ cache' = [data |-> RemoteAnswer(call'.lat, call'.lng, call'.radiusM),
                            time |-> now]
               /\ call'.value = cache'.data
          ELSE cache' = cache]_vars

\* C25 amended: after every successful remote query of registry.nearby the
\* cache holds exactly that query's result set, without the user's local
\* entries, stamped with the current time, and the caller receives that
\* result set followed by the user's local entries; a failed query leaves
\* the cache and its timestamp unchanged.
C25_CacheHoldsRemoteResult ==
    [][NearbyReturns =>
          IF call'.fetchOk
          THEN /\ cache' = [data |-> RemoteAnswer(call'.lat, call'.lng, call'.radiusM),
                            time |-> now]
               /\ call'.value = cache'.data \o localCameras
          ELSE cache' = cache]_vars

\* a successful query, made after the clock moved and a local camera was
\* saved, refreshed the cache with a registry camera
C25_Witness ==
    /\ call.fetchOk
    /\ call.nLocal >= 1
    /\ call.clock > 0
    /\ cache # Null /\ cache.time = call.clock
    /\ Len(cache.data) >= 1
    /\ Len(call.value) = Len(cache.data) + call.nLocal

(***************************************************************************)
(* Claims about overlapping updates, checked under LogSpec                 *)
(***************************************************************************)
\* this step commits the put of the letter-regeneration update on an entry
\* it read as captured, which the mark-sent update has since stored as sent:
\* the two update calls overlapped
LetterPutAfterMarkSent ==
    /\ txQueue # <<>>
    /\ txQueue[1].op = "put" /\ txQueue[1].caller = "letter"
    /\ txQueue[1].value.status = "captured"
    /\ \E e \in store : e.id = txQueue[1].id /\ e.status = "sent"
    /\ txQueue' = Tail(txQueue)

\* C27: when the letter-regeneration update of buildAndShowLetter and the
\* mark-sent update of the same incident overlap, the stored incident
\* afterwards reflects the changes of both calls: the status and sent time
\* the mark-sent call wrote and the letter and subject the regeneration
\* wrote, neither overwritten by what the other call had read earlier.
C27_OverlappingUpdatesBothKept ==
    [][LetterPutAfterMarkSent =>
          LET e == StoreGet(store, txQueue[1].id)
              f == StoreGet(store', txQueue[1].id)
          IN  /\ f # Null
              /\ f.status = "sent"
              /\ f.sarSentAt = e.sarSentAt
              /\ f.letterText = txQueue[1].value.letterText
              /\ f.subjectLine = txQueue[1].value.subjectLine]_vars

(***************************************************************************)
(* Claims about a new capture after an incident was opened, under LogSpec  *)
(***************************************************************************)
\* the wizard holds a photograph just taken, not the thumbnail of a stored
\* incident
FreshPhoto == state.photo # Null /\ state.photo.data = [img |-> TRUE]

\* this step is a click on step 2's Next or on Mark as Sent that starts the
\* log operation t
Starts(t) ==
    /\ state.section = "request" /\ state.step \in {2, 3}
    /\ t.caller \in {"letter", "markSent"}
    /\ txQueue' = Append(txQueue, t)

\* C29: after a stored incident was opened from the log and a new capture
\* was started from the home screen with a new photograph, letter
\* generation and mark-sent of the new flow create or modify only the new
\* capture's incident: with a freshly taken photograph in the wizard they
\* start no update of an incident already in the log.
C29_NewCaptureLeavesStoredIncidents ==
    [][FreshPhoto =>
          \A e \in store :
              /\ ~Starts(Tx("readonly", "get", e.id,
                            [letterText |-> DraftLetter, subjectLine |-> DraftSubject],
                            "letter"))
              /\ ~Starts(Tx("readonly", "get", e.id, SentChanges(now, dom), "markSent"))]_vars

(***************************************************************************)
(* Claims about the incident date and time, checked under DateSpec         *)
(***************************************************************************)
\* this step is btn-step1-next: prefillIncidentDateTime, then showStep(2);
\* no transaction of the log finishes in it
Step1NextClicked ==
    /\ state.section = "request" /\ state.step = 1
    /\ state' = [state EXCEPT !.step = 2]
    /\ txQueue' = txQueue

\* this step is openIncidentForProcessing resuming with the incident inc
Opened(inc) ==
    \E i \in 1..Len(txQueue) :
        /\ Runnable(i)
        /\ txQueue[i] = Tx("readonly", "get", inc.id, Null, "open")
        /\ txQueue' = Without(txQueue, i)

\* C26: prefillIncidentDateTime only fills empty fields: a date or a time
\* the field already holds, typed by the user or restored from the stored
\* incident, is the field's value after the call, on both paths that call
\* it: step 1's Next and opening an incident from the log.
C26_PrefillKeepsFilledFields ==
    [][/\ Step1NextClicked =>
              /\ dom.incidentDate # "" => dom'.incidentDate = dom.incidentDate
              /\ dom.incidentTime # "" => dom'.incidentTime = dom.incidentTime
       /\ \A inc \in store :
              Opened(inc) =>
                  /\ inc.incidentDate # "" => dom'.incidentDate = inc.incidentDate
                  /\ inc.incidentTime # "" => dom'.incidentTime = inc.incidentTime]_vars

\* on step 2 the form holds a date that was typed, or restored from the
\* log, beside a time that prefillIncidentDateTime took from the photograph
C26_Witness ==
    /\ state.section = "request" /\ state.step = 2
    /\ state.photo # Null
    /\ dom.incidentDate = TypedDate
    /\ dom.incidentTime = fmtTime(Local(state.photo.time, tz))
    /\ dom.incidentTime # TypedTime

\* the incidents Save to Log has stored in this session
SavedToLog == {e \in store : e.id.uuid >= 1}

\* C30: for an incident stored by Save to Log, the stored incidentDate and
\* incidentTime together denote the local calendar date and minute of its
\* capture timestamp, for every capture instant and every timezone offset,
\* captures within the offset of local midnight included.
C30_StoredDateTimeIsLocalCaptureTime ==
    \A e \in SavedToLog :
        /\ e.incidentDate = IsoDay(Local(Date(e.capturedAt.iso), tz))
        /\ e.incidentTime = fmtTime(Local(Date(e.capturedAt.iso), tz))

(***************************************************************************)
(* Claims about pending location and search requests, under FlowSpec       *)
(***************************************************************************)
\* the user has left the flow request r was started in: the section was
\* left or another photograph taken since, or the wizard no longer holds
\* the photograph of r
Stale(r) == r.stale \/ r.photo # state.photo

\* a step in which the i-th pending request settles: it leaves inFlight, and
\* the function that awaited it may have started one more request
Settles(i) ==
    /\ i \in 1..Len(inFlight)
    /\ inFlight' # inFlight
    /\ inFlight' # Abandon(inFlight)
    /\ Len(inFlight') \in {Len(inFlight) - 1, Len(inFlight)}
    /\ SubSeq(inFlight', 1, Len(inFlight) - 1) = Without(inFlight, i)

Count(kind, q) == Cardinality({i \in 1..Len(q) : q[i].kind = kind})

\* C21: a location, geocoding or registry-search request that is stale when
\* it settles changes neither state.location nor #registry-results.
C21_StaleResultsAreDiscarded ==
    [][\A i \in 1..Len(inFlight) :
           (Stale(inFlight[i]) /\ Settles(i)) =>
               /\ state'.location = state.location
               /\ registryResults' = registryResults]_vars

\* C22 as stated: when loc.getPosition fails, reverse-geocoding for that
\* photograph still runs.
C22_FailureDoesNotBlockTheOther ==
    [][\A i \in 1..Len(inFlight) :
           (/\ inFlight[i].kind = "position"
            /\ Settles(i)
            /\ dom'.gpsStatus = "unavailable") =>
               \E j \in 1..Len(inFlight') :
                   /\ inFlight'[j].kind = "geocode"
                   /\ inFlight'[j].photo = inFlight[i].photo]_vars

\* C22, amended: reverse-geocoding is started only by a step in which
\* loc.getPosition settles, never by the step in which it fails; and when
\* reverse-geocoding settles, failed or not, state.location holds the
\* latitude getPosition gave.
C22_GeocodingFollowsPosition ==
    [][/\ Count("geocode", inFlight') > Count("geocode", inFlight) =>
              /\ Count("position", inFlight') < Count("position", inFlight)
              /\ ~(dom'.gpsStatus = "unavailable" /\ dom.gpsStatus # "unavailable")
       /\ \A i \in 1..Len(inFlight) :
              (inFlight[i].kind = "geocode" /\ Settles(i)) =>
                  /\ state'.location # Null
                  /\ state'.location.lat = inFlight[i].lat]_vars

\* reverse-geocoding has failed and the wizard holds the raw coordinates
C22_Witness ==
    /\ dom.gpsStatus = "coordinates"
    /\ \E lat \in Lats : state.location = RawLocation(lat)

\* C23: no stored incident and no camera in the local key-value store holds
\* the coordinates of the user.
C23_NoStoredCoordinates ==
    /\ \A e \in store : e.lat = Null /\ e.lng = Null
    /\ \A i \in 1..Len(localCameras) :
           localCameras[i].lat = Undefined /\ localCameras[i].lng = Undefined

(***************************************************************************)
(* Claims about repeated clicks, checked under ClickSpec                   *)
(***************************************************************************)
\* C28: the one photograph of the run has at most one incident in the log
\* and at most one send in the contact history, however often its buttons
\* were clicked.
C28_OneRecordAndOneSendPerCapture ==
    /\ Cardinality(store) <= 1
    /\ Len(sendLog) <= 1

(***************************************************************************)
(* Claims about what is transmitted, checked under PrivacySpec             *)
(***************************************************************************)
\* C24: two wizards given the same events on different stored profiles have
\* issued the same fetch() calls, with the same bodies, in the same order.
C24_RequestsDoNotDependOnProfile == requests = twin.requests

\* the profiles differ, so do the two letters, and both wizards have queried
\* the registry, geocoded and submitted a contribution
C24_Witness ==
    /\ profile # twin.profile
    /\ letterOut # Null /\ letterOut # twin.letter
    /\ \E i \in 1..Len(requests) : requests[i].to = "rest/v1/pending_cameras"
    /\ \E i \in 1..Len(requests) : requests[i].to = "rest/v1/rpc/cameras_within"
    /\ \E i \in 1..Len(requests) : requests[i].to = "nominatim.openstreetmap.org/reverse"

====
